---- MODULE Spec2Model ----
(***************************************************************************)
(* Backup / restore orchestration of HMCorp-Fund/docker_migration.         *)
(*                                                                         *)
(* Five specifications share the variables below:                          *)
(*   SpecInventory main's backup mode up to the backup directory: the      *)
(*                 inventory from parse_compose_file or from               *)
(*                 backup_all_docker_data, then backup_docker_data         *)
(*   SpecBackup    backup_docker_data on an inventory (docker_backup.py)   *)
(*                 (SpecBackupLive: the same with weak fairness)           *)
(*   SpecRestore   main's restore mode: restore_docker_backup and the      *)
(*                 extract-only loop, run against one target host          *)
(*   SpecRoundTrip backup_docker_data, create_archives, then               *)
(*                 restore_docker_backup on a clean target                 *)
(*   SpecTransfer  main's backup mode from the transfer decision on, and   *)
(*                 transfer_files (file_transfer.py)                       *)
(* Every docker command goes through run_command, whose result is None     *)
(* when the command exits non-zero: the outcome of each command is an       *)
(* input chosen by the environment when the command is issued.             *)
(***************************************************************************)
EXTENDS Naturals, Sequences, FiniteSets, TLC

VARIABLES
    \* ---- main, backup mode: inventory construction --------------------
    source,               \* docker-compose.yml of the working directory, or
                          \* the live runtime when it is absent or skipped
    additional_files,     \* fourth list of the inventory
    \* ---- backup_docker_data ------------------------------------------
    bpc,                  \* position in backup_docker_data
    images,               \* argument: list of image references
    containers,           \* argument, reassigned to existing_containers
    networks,             \* argument: list of network names
    containers_json,      \* local: descriptors of the inspected containers
    volumes_to_backup,    \* local: set of volume names found in the mounts
    existing_networks,    \* local: networks whose inspection succeeded
    backup_dir,           \* the backup directory tree on disk
    dropped,              \* observation: refs whose command failed, per kind
    \* ---- create_archives / the archive handed to restore --------------
    archive,              \* the outer archive file
    \* ---- restore (main, restore_docker_backup) ------------------------
    rpc,                  \* position in main's restore mode
    mode,                 \* "restore" or "extract_only" (--extract-only)
    run,                  \* number of the current restore call on this target
    extracted,            \* tree under the extraction directory (backup_dir)
    tmpdirs,              \* temporary directories that exist on disk
    cwd,                  \* working / target directory on the target host
    target,               \* runtime state of the target host
    restored_images,      \* result lists of the current call
    restored_networks,
    restored_volumes,
    restored_containers,
    temp_volumes_data,    \* local of restore_docker_backup
    cmds,                 \* runtime commands issued by the current call
    before,               \* the target runtime as it was when the call began
    path,                 \* branch taken by the current call
    \* ---- main, backup mode: packaging and transfer --------------------
    supplied,             \* arguments of the packaging call
    tpc,                  \* position in main, lines 89-113
    args,                 \* command line: transfer, destination, ftp_user,
                          \* ftp_pass, no_prompt
    destination,          \* local of main / argument of transfer_files
    prompts,              \* input() calls made, in order
    handler,              \* branch transfer_files took
    fs,                   \* file system of the host: directories and files
    returned,             \* what transfer_files returned
    outcome               \* how main's backup mode ended

bvars == <<bpc, images, containers, networks, containers_json,
           volumes_to_backup, existing_networks, backup_dir, dropped>>
rvars == <<rpc, mode, run, extracted, tmpdirs, cwd, target, restored_images,
           restored_networks, restored_volumes, restored_containers,
           temp_volumes_data, cmds, before, path>>
tvars == <<tpc, args, destination, prompts, handler, fs, returned, outcome>>
ivars == <<source, additional_files>>
vars == <<ivars, bvars, archive, rvars, supplied, tvars>>

-----------------------------------------------------------------------------
(* Bounds                                                                  *)

\* longest list of image references handed to backup_docker_data
MaxImages == 2
\* number of restore calls made one after the other against one target
MaxRuns == 2

-----------------------------------------------------------------------------
(* Generic helpers                                                         *)

Range(s) == {s[i] : i \in DOMAIN s}

SeqsUpTo(S, n) == UNION {[1..k -> S] : k \in 0..n}

\* A directory listing (os.listdir): the names of S in some order, each once.
RECURSIVE ListDir(_)
ListDir(S) ==
    IF S = {} THEN <<>>
    ELSE LET x == CHOOSE y \in S : TRUE IN <<x>> \o ListDir(S \ {x})

\* Number of positions of s that hold x.
RECURSIVE Count(_, _)
Count(s, x) ==
    IF s = <<>> THEN 0
    ELSE (IF Head(s) = x THEN 1 ELSE 0) + Count(Tail(s), x)

NoDup(s) == \A i, j \in DOMAIN s : i # j => s[i] # s[j]

-----------------------------------------------------------------------------
(* Data model                                                              *)

\* An image reference is a string; its characters matter for the blob name.
ImageRefs == { <<"a", "/", "b">>, <<"a", "_", "b">>, <<"c", ":", "1">> }

ContainerNames == {"web", "db", "ghost"}
NetworkNames == {"appnet", "backnet", "bridge"}
VolumeNames == {"dbdata", "cache"}
DefaultNetworks == {"bridge", "host", "none"}

\* What `docker inspect <container>` prints for a container of the source
\* host: the fields the backup and the restore read.
\*   Name                     -> Name (without the leading "/")
\*   Config.Image             -> Image
\*   Mounts[Type = volume]    -> Mounts       (read by backup_docker_data)
\*   HostConfig.Mounts        -> HostMounts   (read by restore_containers)
\*   NetworkSettings.Networks -> Networks
\*   Config.Env               -> Env          (entries "A=1", "PATH", "B=")
Descriptor(name) ==
    CASE name = "web" ->
           [Name |-> "web", Image |-> <<"a", "/", "b">>, Mounts |-> {"dbdata"},
            HostMounts |-> {"dbdata"}, Networks |-> {"appnet"},
            Env |-> { <<"A", "=", "1">>, <<"P", "A", "T", "H">> }]
      [] name = "db" ->
           [Name |-> "db", Image |-> <<"c", ":", "1">>,
            Mounts |-> {"dbdata", "cache"}, HostMounts |-> {"dbdata", "cache"},
            Networks |-> {"appnet", "backnet"}, Env |-> { <<"B", "=">> }]
      [] OTHER ->
           [Name |-> name, Image |-> <<"c", ":", "1">>, Mounts |-> {"cache"},
            HostMounts |-> {"cache"}, Networks |-> {"bridge"}, Env |-> {}]

\* Content of a volume of the source host.
SourceData(v) == <<"data", v>>
EmptyData == <<"empty">>

\* The backup directory before anything is written into it (mkdtemp).
EmptyBackupDir ==
    [containers_json |-> <<>>, has_containers_json |-> FALSE,
     images |-> <<>>, networks |-> {}, volumes_meta |-> {},
     volumes_data |-> <<>>, dirs |-> {},
     manifest |-> [written |-> FALSE, images |-> <<>>, containers |-> <<>>,
                   networks |-> <<>>, volumes |-> {}]]

-----------------------------------------------------------------------------
(* backup_docker_data                                                      *)

\* Results of run_command for an inspection: output parsed ("ok"), command
\* failed or printed nothing ("fail", run_command gives None or ''), output
\* that json.loads rejects ("garbled").
InspectOutcomes == {"ok", "fail", "garbled"}
\* Results of run_command(..., capture_output=False): True or None.
CommandOutcomes == {"ok", "fail"}

\* image_name.replace('/', '_').replace(':', '_'), character by character
Escape(ref) ==
    [i \in DOMAIN ref |-> IF ref[i] \in {"/", ":"} THEN "_" ELSE ref[i]]

\* A faulty variant of InspectContainers: the container is recorded as
\* existing before its inspection output is parsed.
RECURSIVE InspectContainersEarlyAppend(_, _)
InspectContainersEarlyAppend(cs, out) ==
    IF cs = <<>> THEN [json |-> <<>>, existing |-> <<>>, volumes |-> {}]
    ELSE LET rest == InspectContainersEarlyAppend(Tail(cs), Tail(out))
             d == Descriptor(Head(cs))
         IN IF Head(out) = "ok"
            THEN [json |-> <<d>> \o rest.json,
                  existing |-> <<Head(cs)>> \o rest.existing,
                  volumes |-> d.Mounts \cup rest.volumes]
            ELSE IF Head(out) = "garbled"
            THEN [rest EXCEPT !.existing = <<Head(cs)>> \o @]
            ELSE rest

\* The first loop of backup_docker_data: containers_json, existing_containers
\* and volumes_to_backup after inspecting cs with the outcomes out.
RECURSIVE InspectContainers(_, _)
InspectContainers(cs, out) ==
    IF cs = <<>> THEN [json |-> <<>>, existing |-> <<>>, volumes |-> {}]
    ELSE LET rest == InspectContainers(Tail(cs), Tail(out))
             d == Descriptor(Head(cs))
         IN IF Head(out) = "ok"
            THEN [json |-> <<d>> \o rest.json,
                  existing |-> <<Head(cs)>> \o rest.existing,
                  volumes |-> d.Mounts \cup rest.volumes]
            ELSE rest

\* The image loop: the files of images/ after `docker save` of each
\* reference of imgs, in order, with the outcomes out. A later save to the
\* same file name replaces the file.
RECURSIVE SaveImages(_, _, _)
SaveImages(files, imgs, out) ==
    IF imgs = <<>> THEN files
    ELSE SaveImages(IF Head(out) = "ok"
                    THEN (Escape(Head(imgs)) :> Head(imgs)) @@ files
                    ELSE files,
                    Tail(imgs), Tail(out))

\* The network loop: existing_networks after inspecting nets.
RECURSIVE InspectNetworks(_, _)
InspectNetworks(nets, out) ==
    IF nets = <<>> THEN <<>>
    ELSE (IF Head(out) = "ok" THEN <<Head(nets)>> ELSE <<>>)
         \o InspectNetworks(Tail(nets), Tail(out))

\* The image list written to manifest.json: the argument, as it was passed.
ManifestImages(imgs, failed) == imgs

\* A faulty variant of ManifestContainers: the argument list is kept.
ManifestContainersUnfiltered(cs, existing) == cs

\* The container list written to manifest.json: `containers` after
\* `containers = existing_containers`.
ManifestContainers(cs, existing) == existing

\* A faulty variant of BackupPhaseAfter: the volumes are captured right
\* after the containers, before the images and the networks.
BackupPhaseAfterVolumesEarly(pos) ==
    CASE pos = "containers" -> "volumes"
      [] pos = "volumes" -> "images"
      [] pos = "images" -> "networks"
      [] pos = "networks" -> "manifest"
      [] OTHER -> "done"

\* The order of the blocks of backup_docker_data: containers (lines 46-75),
\* images (77-83), networks (85-107), volumes (109-136), manifest (139-147).
BackupPhaseAfter(pos) ==
    CASE pos = "containers" -> "images"
      [] pos = "images" -> "networks"
      [] pos = "networks" -> "volumes"
      [] pos = "volumes" -> "manifest"
      [] OTHER -> "done"

BackupContainers ==
    /\ bpc = "containers"
    /\ \E out \in [1..Len(containers) -> InspectOutcomes] :
         LET r == InspectContainers(containers, out) IN
         /\ containers_json' = r.json
         /\ containers' = ManifestContainers(containers, r.existing)
         /\ volumes_to_backup' = r.volumes
         /\ backup_dir' = [backup_dir EXCEPT !.containers_json = r.json,
                                             !.has_containers_json = TRUE]
         /\ dropped' = [dropped EXCEPT !.containers =
                           {containers[i] : i \in {j \in DOMAIN out : out[j] # "ok"}}]
    /\ bpc' = BackupPhaseAfter(bpc)
    /\ UNCHANGED <<images, networks, existing_networks, archive, rvars>>
    /\ UNCHANGED <<ivars, supplied, tvars>>

\* A faulty variant of BackupImages: a failed `docker save` is not caught
\* and ends the backup.
BackupImagesAborting ==
    /\ bpc = "images"
    /\ \E out \in [1..Len(images) -> CommandOutcomes] :
         /\ backup_dir' = [backup_dir EXCEPT
                             !.dirs = @ \cup {"images"},
                             !.images = SaveImages(@, images, out)]
         /\ dropped' = [dropped EXCEPT !.images =
                           {images[i] : i \in {j \in DOMAIN out : out[j] # "ok"}}]
         /\ bpc' = IF \E i \in DOMAIN out : out[i] # "ok"
                   THEN "raised" ELSE BackupPhaseAfter(bpc)
    /\ UNCHANGED <<images, containers, networks, containers_json,
                   volumes_to_backup, existing_networks, archive, rvars>>
    /\ UNCHANGED <<ivars, supplied, tvars>>

BackupImages ==
    /\ bpc = "images"
    /\ \E out \in [1..Len(images) -> CommandOutcomes] :
         /\ backup_dir' = [backup_dir EXCEPT
                             !.dirs = @ \cup {"images"},
                             !.images = SaveImages(@, images, out)]
         /\ dropped' = [dropped EXCEPT !.images =
                           {images[i] : i \in {j \in DOMAIN out : out[j] # "ok"}}]
    /\ bpc' = BackupPhaseAfter(bpc)
    /\ UNCHANGED <<images, containers, networks, containers_json,
                   volumes_to_backup, existing_networks, archive, rvars>>
    /\ UNCHANGED <<ivars, supplied, tvars>>

BackupNetworks ==
    /\ bpc = "networks"
    /\ \E out \in [1..Len(networks) -> InspectOutcomes] :
         /\ existing_networks' = InspectNetworks(networks, out)
         /\ backup_dir' = [backup_dir EXCEPT
                             !.dirs = @ \cup {"networks"},
                             !.networks = Range(InspectNetworks(networks, out))]
         /\ dropped' = [dropped EXCEPT !.networks =
                           {networks[i] : i \in {j \in DOMAIN out : out[j] # "ok"}}]
    /\ bpc' = BackupPhaseAfter(bpc)
    /\ UNCHANGED <<images, containers, networks, containers_json,
                   volumes_to_backup, archive, rvars>>
    /\ UNCHANGED <<ivars, supplied, tvars>>

\* volumes/<name>/ after the data mover ran with outcome copy.
CapturedData(v, copy) == IF copy = "ok" THEN SourceData(v) ELSE EmptyData

BackupVolumes ==
    /\ bpc = "volumes"
    /\ \E out \in [volumes_to_backup -> InspectOutcomes],
          copy \in [volumes_to_backup -> CommandOutcomes] :
         LET ok == {v \in volumes_to_backup : out[v] = "ok"} IN
         \* the copy only runs for an inspected volume
         /\ \A v \in volumes_to_backup \ ok : copy[v] = "ok"
         /\ backup_dir' = [backup_dir EXCEPT
                             !.dirs = @ \cup {"volumes"},
                             !.volumes_meta = ok,
                             !.volumes_data = [v \in ok |-> CapturedData(v, copy[v])]]
         /\ dropped' = [dropped EXCEPT !.volumes = volumes_to_backup \ ok]
    /\ bpc' = BackupPhaseAfter(bpc)
    /\ UNCHANGED <<images, containers, networks, containers_json,
                   volumes_to_backup, existing_networks, archive, rvars>>
    /\ UNCHANGED <<ivars, supplied, tvars>>

WriteManifest ==
    /\ bpc = "manifest"
    /\ backup_dir' = [backup_dir EXCEPT !.manifest =
                        [written |-> TRUE,
                         images |-> ManifestImages(images, dropped.images),
                         containers |-> containers,
                         networks |-> existing_networks,
                         volumes |-> volumes_to_backup]]
    /\ bpc' = BackupPhaseAfter(bpc)
    /\ UNCHANGED <<images, containers, networks, containers_json,
                   volumes_to_backup, existing_networks, dropped, archive, rvars>>
    /\ UNCHANGED <<ivars, supplied, tvars>>

BackupNext ==
    \/ BackupContainers
    \/ BackupImages
    \/ BackupNetworks
    \/ BackupVolumes
    \/ WriteManifest

\* Inventories handed to backup_docker_data (by main, from parse_compose_file
\* or from backup_all_docker_data).
ContainerInventories ==
    { <<>>, <<"web">>, <<"web", "db">>, <<"ghost", "web">>, <<"db", "ghost">> }
NetworkInventories ==
    { <<>>, <<"appnet">>, <<"appnet", "backnet">>, <<"backnet", "appnet">> }

BackupStart ==
    /\ bpc = "containers"
    /\ images \in SeqsUpTo(ImageRefs, MaxImages)
    /\ containers \in ContainerInventories
    /\ networks \in NetworkInventories
    /\ containers_json = <<>>
    /\ volumes_to_backup = {}
    /\ existing_networks = <<>>
    /\ backup_dir = EmptyBackupDir
    /\ dropped = [containers |-> {}, images |-> {}, networks |-> {}, volumes |-> {}]

BackupIdle ==
    /\ bpc = "idle"
    /\ images = <<>>
    /\ containers = <<>>
    /\ networks = <<>>
    /\ containers_json = <<>>
    /\ volumes_to_backup = {}
    /\ existing_networks = <<>>
    /\ backup_dir = EmptyBackupDir
    /\ dropped = [containers |-> {}, images |-> {}, networks |-> {}, volumes |-> {}]

-----------------------------------------------------------------------------
(* main, backup mode: the inventory                                        *)

\* No inventory is being built.
NoSource == [kind |-> "none"]
InventoryIdle ==
    /\ source = NoSource
    /\ additional_files = <<>>

\* An entry of a service's `volumes` list: a string ("host:container", or
\* one without ':'), a mapping (the long syntax) or a scalar that is not
\* iterable (a number). For a string, host is the text before the first
\* ':' and isfile says whether that path is an existing regular file.
Volume(kind, colon, host, isfile) ==
    [kind |-> kind, colon |-> colon, host |-> host, isfile |-> isfile]

\* A service of the compose file: its key, whether its value is null, and
\* the optional keys image, container_name (a list of none or one value)
\* and volumes (empty when the key is absent).
Service(name, null, image, container_name, volumes) ==
    [name |-> name, null |-> null, image |-> image,
     container_name |-> container_name, volumes |-> volumes]

\* docker-compose.yml: whether open() succeeds, what yaml.safe_load gives
\* ("garbage": it raises; "null": None, an empty file; "mapping"), and the
\* two top-level keys the parser reads. networks_null: the key is there
\* with no value.
Compose(readable, yaml, has_services, services, has_networks, networks_null, nets) ==
    [kind |-> "compose", readable |-> readable, yaml |-> yaml,
     has_services |-> has_services, services |-> services,
     has_networks |-> has_networks, networks_null |-> networks_null,
     networks |-> nets]

\* The live runtime: what `docker ps -a` and `docker network ls` list.
Live(cs, nets) == [kind |-> "live", containers |-> cs, networks |-> nets]

\* f"{os.path.basename(os.getcwd())}_{service_name}" in the directory app
ComposeName(service) ==
    CASE service = "web" -> "app_web"
      [] service = "db" -> "app_db"
      [] OTHER -> "app_cache"

\* The four lists of parse_compose_file while it walks the document, and
\* whether an exception has been raised.
EmptyWalk ==
    [images |-> <<>>, containers |-> <<>>, networks |-> <<>>,
     additional_files |-> <<>>, raised |-> FALSE]

\* Lines 40-45: the volumes of one service.
RECURSIVE WalkVolumes(_, _)
WalkVolumes(st, vols) ==
    IF vols = <<>> \/ st.raised THEN st
    ELSE LET v == Head(vols) IN
         WalkVolumes(IF v.kind = "number"
                     THEN [st EXCEPT !.raised = TRUE]
                     ELSE IF v.kind = "string" /\ v.colon /\ v.isfile
                     THEN [st EXCEPT !.additional_files = Append(@, v.host)]
                     ELSE st,
                     Tail(vols))

\* Lines 27-45: one service. `'image' in service_config` raises TypeError
\* when the service has no configuration.
WalkService(st, svc) ==
    IF svc.null THEN [st EXCEPT !.raised = TRUE]
    ELSE WalkVolumes([st EXCEPT
                        !.images = @ \o svc.image,
                        !.containers = Append(@, IF svc.container_name # <<>>
                                                 THEN svc.container_name[1]
                                                 ELSE ComposeName(svc.name))],
                     svc.volumes)

RECURSIVE WalkServices(_, _)
WalkServices(st, svcs) ==
    IF svcs = <<>> \/ st.raised THEN st
    ELSE WalkServices(WalkService(st, Head(svcs)), Tail(svcs))

\* Lines 17-50: the body of the try block.
WalkCompose(doc) ==
    IF ~doc.readable \/ doc.yaml # "mapping"
    THEN [EmptyWalk EXCEPT !.raised = TRUE]
    ELSE LET st == IF doc.has_services
                   THEN WalkServices(EmptyWalk, doc.services)
                   ELSE EmptyWalk
         IN IF st.raised \/ ~doc.has_networks THEN st
            ELSE IF doc.networks_null THEN [st EXCEPT !.raised = TRUE]
            ELSE [st EXCEPT !.networks = doc.networks]

Inventory(st) ==
    [images |-> st.images, containers |-> st.containers,
     networks |-> st.networks, additional_files |-> st.additional_files]
EmptyInventory == Inventory(EmptyWalk)

\* A faulty variant of ParseComposeFile: the handler returns the lists as
\* they were when the exception was raised.
ParseComposeFilePartial(doc) == Inventory(WalkCompose(doc))

\* parse_compose_file: line 53 when the body ends, line 57 when it raises.
ParseComposeFile(doc) ==
    IF WalkCompose(doc).raised THEN EmptyInventory
    ELSE Inventory(WalkCompose(doc))

\* main, lines 45-49: the compose file exists and --backup-all is not given.
MainParseCompose ==
    /\ bpc = "inventory"
    /\ source.kind = "compose"
    /\ LET inv == ParseComposeFile(source) IN
         /\ images' = inv.images
         /\ containers' = inv.containers
         /\ networks' = inv.networks
         /\ additional_files' = inv.additional_files
    /\ bpc' = "containers"
    /\ UNCHANGED <<source, containers_json, volumes_to_backup,
                   existing_networks, backup_dir, dropped, archive, rvars,
                   supplied, tvars>>

\* Lines 166-171 of backup_all_docker_data: one image per container whose
\* inspection printed something.
RECURSIVE ContainerImages(_, _)
ContainerImages(cs, out) ==
    IF cs = <<>> THEN <<>>
    ELSE (IF Head(out) = "ok" THEN <<Descriptor(Head(cs)).Image>> ELSE <<>>)
         \o ContainerImages(Tail(cs), Tail(out))

\* Line 176: the listing without the networks every runtime has.
IsDefaultNetwork(n) == n \in DefaultNetworks
LiveNetworks(listing) == SelectSeq(listing, LAMBDA n : ~IsDefaultNetwork(n))

\* main, lines 50-57, and backup_all_docker_data up to its call of
\* backup_docker_data.
BackupAllDockerData ==
    /\ bpc = "inventory"
    /\ source.kind = "live"
    /\ \E ps \in CommandOutcomes, ls \in CommandOutcomes :
         LET cs == IF ps = "ok" THEN source.containers ELSE <<>> IN
         \E out \in [1..Len(cs) -> CommandOutcomes] :
           /\ containers' = cs
           /\ images' = ContainerImages(cs, out)
           /\ networks' = IF ls = "ok" THEN LiveNetworks(source.networks) ELSE <<>>
    /\ additional_files' = <<>>
    /\ bpc' = "containers"
    /\ UNCHANGED <<source, containers_json, volumes_to_backup,
                   existing_networks, backup_dir, dropped, archive, rvars,
                   supplied, tvars>>

\* Compose files of the working directory.
SvcWeb == Service("web", FALSE, << <<"a", "/", "b">> >>, <<"web">>, <<>>)
SvcDb ==
    Service("db", FALSE, << <<"c", ":", "1">> >>, <<>>,
            <<Volume("string", TRUE, "conf", TRUE),
              Volume("string", TRUE, "datadir", FALSE),
              Volume("mapping", FALSE, "", FALSE)>>)
SvcNull == Service("cache", TRUE, <<>>, <<>>, <<>>)
SvcBadVolume ==
    Service("db", FALSE, << <<"c", ":", "1">> >>, <<"db">>,
            <<Volume("string", TRUE, "conf", TRUE),
              Volume("number", FALSE, "", FALSE)>>)
ComposeSources ==
    { Compose(FALSE, "mapping", TRUE, <<SvcWeb>>, TRUE, FALSE, <<"appnet">>),
      Compose(TRUE, "garbage", FALSE, <<>>, FALSE, FALSE, <<>>),
      Compose(TRUE, "null", FALSE, <<>>, FALSE, FALSE, <<>>),
      Compose(TRUE, "mapping", TRUE, <<SvcWeb>>, TRUE, FALSE, <<"appnet">>),
      Compose(TRUE, "mapping", TRUE, <<SvcWeb, SvcDb>>, TRUE, FALSE,
              <<"appnet", "backnet">>),
      Compose(TRUE, "mapping", TRUE, <<SvcWeb, SvcNull>>, TRUE, FALSE, <<"appnet">>),
      Compose(TRUE, "mapping", TRUE, <<SvcWeb, SvcBadVolume>>, TRUE, FALSE,
              <<"appnet">>),
      Compose(TRUE, "mapping", TRUE, <<SvcWeb>>, TRUE, TRUE, <<>>),
      Compose(TRUE, "mapping", TRUE, <<SvcWeb>>, TRUE, FALSE, <<"appnet", "bridge">>),
      Compose(TRUE, "mapping", TRUE, <<SvcDb>>, FALSE, FALSE, <<>>),
      Compose(TRUE, "mapping", FALSE, <<>>, TRUE, FALSE, <<"backnet">>) }

\* Live runtimes of the source host.
LiveSources ==
    { Live(cs, nets) :
        cs \in { <<>>, <<"web">>, <<"web", "db">>, <<"db", "ghost">> },
        nets \in { <<"bridge", "host", "none">>,
                   <<"bridge", "appnet", "host", "none">>,
                   <<"appnet", "backnet", "bridge", "host", "none">> } }

InventoryStart ==
    /\ source \in ComposeSources \cup LiveSources
    /\ additional_files = <<>>
    /\ bpc = "inventory"
    /\ images = <<>>
    /\ containers = <<>>
    /\ networks = <<>>
    /\ containers_json = <<>>
    /\ volumes_to_backup = {}
    /\ existing_networks = <<>>
    /\ backup_dir = EmptyBackupDir
    /\ dropped = [containers |-> {}, images |-> {}, networks |-> {}, volumes |-> {}]

-----------------------------------------------------------------------------
(* Archives and the target host                                            *)

\* An archive file: whether tarfile can read it and what extracting it
\* writes: `root` is a backup directory tree unpacked at the top level
\* (images/, networks/, volumes/, containers.json), `members` are the
\* top-level files, in listing order.
\* A member file: prefix and extension of its name (TLA+ strings are atoms,
\* so startswith and endswith read these two fields), whether tarfile can
\* read it, and what extracting it writes.
Member(prefix, ext, istar, payload) ==
    [prefix |-> prefix, ext |-> ext, istar |-> istar, payload |-> payload]

\* file.startswith(p) and file.endswith(e) on a member name. ".tar.gz" does
\* not end with ".tar".
StartsWith(m, p) == m.prefix = p
EndsWith(m, e) == m.ext = e

\* A declarative manifest (docker-compose.yml). networks maps each key of
\* the top-level `networks:` mapping to its entry: "null" (a key with no
\* configuration), "plain" (a mapping) or "external" (a mapping holding
\* external: true). dumped: the file was rewritten by yaml.dump.
NoCompose ==
    [present |-> FALSE, has_networks |-> FALSE, networks |-> <<>>,
     services |-> {}, volumes |-> {}, dumped |-> FALSE]
ComposeWeb ==
    [present |-> TRUE, has_networks |-> TRUE, networks |-> ("appnet" :> "plain"),
     services |-> {"web"}, volumes |-> {"dbdata"}, dumped |-> FALSE]
ComposeNullNet ==
    [present |-> TRUE, has_networks |-> TRUE,
     networks |-> ("appnet" :> "null") @@ ("backnet" :> "plain"),
     services |-> {"web"}, volumes |-> {"dbdata"}, dumped |-> FALSE]
ComposeNoNets ==
    [present |-> TRUE, has_networks |-> FALSE, networks |-> <<>>,
     services |-> {"web"}, volumes |-> {}, dumped |-> FALSE]

\* Payloads of member archives: which files extracting them writes, and the
\* docker-compose.yml among them.
\* tree: the backup directory packed inside, under its own directory name.
AppPayload == [files |-> {"app"}, compose |-> NoCompose, tree |-> EmptyBackupDir]
AppComposePayload == [files |-> {"app"}, compose |-> ComposeWeb, tree |-> EmptyBackupDir]
ExtraPayload == [files |-> {"extra"}, compose |-> NoCompose, tree |-> EmptyBackupDir]
BackupPayload(tree) == [files |-> {"docker_backup"}, compose |-> NoCompose, tree |-> tree]
AdditionalPayload == [files |-> {"additional"}, compose |-> NoCompose, tree |-> EmptyBackupDir]
NoPayload == [files |-> {}, compose |-> NoCompose, tree |-> EmptyBackupDir]

UnreadableArchive == [readable |-> FALSE, root |-> EmptyBackupDir, members |-> <<>>]

\* The runtime of a host: loaded images, networks, volumes with their
\* content, containers with the volumes and networks they were run with.
\* labelled: the networks that carry the label com.docker.compose.project.
EmptyRuntime ==
    [images |-> {}, networks |-> DefaultNetworks, labelled |-> {},
     volumes |-> <<>>, containers |-> <<>>]

\* Content of a volume of the target host that the restore did not write.
OldData == <<"old">>

\* One runtime command issued through run_command, with what it answered:
\* "found" or "absent" for an existence check (absent also when the command
\* failed), "ok" or "fail" for the others.
Cmd(op, name, result) == [op |-> op, name |-> name, result |-> result]

\* docker refuses to create a network or a container under a name in use.
Created(answer, name, inuse) == answer = "ok" /\ name \notin inuse

-----------------------------------------------------------------------------
(* restore_images, restore_networks, restore_volumes, restore_containers   *)

\* The accumulator of a restore loop: the list returned so far, the runtime
\* of the target host and the commands issued.
Acc(restored, rt, issued) == [restored |-> restored, rt |-> rt, cmds |-> issued]

\* One iteration of restore_images on images/<blob>.tar, which holds image
\* ref. o: "fail" (docker load failed), "named" (output holds "Loaded
\* image"), "unnamed" (loaded, the output names no image).
RestoreImage(acc, blob, ref, o) ==
    LET issued == Append(acc.cmds, Cmd("load", blob, IF o = "fail" THEN "fail" ELSE "ok")) IN
    CASE o = "named" ->
           Acc(Append(acc.restored, ref),
               [acc.rt EXCEPT !.images = @ \cup {ref}], issued)
      [] o = "unnamed" ->
           Acc(acc.restored, [acc.rt EXCEPT !.images = @ \cup {ref}], issued)
      [] OTHER -> Acc(acc.restored, acc.rt, issued)

RECURSIVE RestoreImagesLoop(_, _, _, _)
RestoreImagesLoop(acc, blobs, files, out) ==
    IF blobs = <<>> THEN acc
    ELSE RestoreImagesLoop(
             RestoreImage(acc, Head(blobs), files[Head(blobs)], out[Head(blobs)]),
             Tail(blobs), files, out)

\* restore_images(backup_dir) on the tree root
RestoreImages(root, rt, out) ==
    IF "images" \notin root.dirs THEN Acc(<<>>, rt, <<>>)
    ELSE RestoreImagesLoop(Acc(<<>>, rt, <<>>), ListDir(DOMAIN root.images),
                           root.images, out)

\* A faulty variant of RestoreNetwork: a network found on the target is
\* skipped without being added to the returned list.
RestoreNetworkUnreported(acc, n, o) ==
    LET found == o.check = "ok" /\ n \in acc.rt.networks
        checked == Append(acc.cmds,
                          Cmd("network ls", n, IF found THEN "found" ELSE "absent"))
        made == Created(o.create, n, acc.rt.networks)
    IN
    IF found \/ n \in DefaultNetworks
    THEN Acc(acc.restored, acc.rt, checked)
    ELSE Acc(IF made THEN Append(acc.restored, n) ELSE acc.restored,
             IF made THEN [acc.rt EXCEPT !.networks = @ \cup {n}] ELSE acc.rt,
             Append(checked, Cmd("network create", n, IF made THEN "ok" ELSE "fail")))

\* One iteration of restore_networks for networks/<n>.json.
\* o.check: the result of `docker network ls` ("fail": run_command gave None),
\* o.create: the result of `docker network create`.
RestoreNetwork(acc, n, o) ==
    LET found == o.check = "ok" /\ n \in acc.rt.networks
        checked == Append(acc.cmds,
                          Cmd("network ls", n, IF found THEN "found" ELSE "absent"))
        made == Created(o.create, n, acc.rt.networks)
    IN
    IF found
    THEN Acc(Append(acc.restored, n), acc.rt, checked)
    ELSE IF n \in DefaultNetworks
    THEN Acc(acc.restored, acc.rt, checked)
    ELSE LET issued == Append(checked, Cmd("network create", n,
                                          IF made THEN "ok" ELSE "fail")) IN
         IF made
         THEN Acc(Append(acc.restored, n),
                  [acc.rt EXCEPT !.networks = @ \cup {n}], issued)
         ELSE Acc(acc.restored, acc.rt, issued)

RECURSIVE RestoreNetworksLoop(_, _, _)
RestoreNetworksLoop(acc, names, out) ==
    IF names = <<>> THEN acc
    ELSE RestoreNetworksLoop(RestoreNetwork(acc, Head(names), out[Head(names)]),
                             Tail(names), out)

\* restore_networks(backup_dir)
RestoreNetworks(root, rt, out) ==
    IF "networks" \notin root.dirs THEN Acc(<<>>, rt, <<>>)
    ELSE RestoreNetworksLoop(Acc(<<>>, rt, <<>>), ListDir(root.networks), out)

\* Content of a volume after the captured files were copied into it.
CopyInto(content, captured) == IF captured = EmptyData THEN content ELSE captured

\* A faulty variant of RestoreVolume: the volume is reported although its
\* creation failed.
RestoreVolumeReportsFailed(acc, v, o, root) ==
    LET exists == v \in DOMAIN acc.rt.volumes
        found == o.check = "ok" /\ exists
        checked == Append(acc.cmds,
                          Cmd("volume ls", v, IF found THEN "found" ELSE "absent"))
    IN
    IF found
    THEN Acc(Append(acc.restored, v), acc.rt, checked)
    ELSE LET created == Append(checked, Cmd("volume create", v, o.create)) IN
         IF o.create # "ok" THEN Acc(Append(acc.restored, v), acc.rt, created)
         ELSE LET vols == IF exists THEN acc.rt.volumes
                          ELSE (v :> EmptyData) @@ acc.rt.volumes
              IN
              IF v \in DOMAIN root.volumes_data
              THEN Acc(Append(acc.restored, v),
                       [acc.rt EXCEPT !.volumes =
                           IF o.copy = "ok"
                           THEN [vols EXCEPT ![v] = CopyInto(@, root.volumes_data[v])]
                           ELSE vols],
                       Append(created, Cmd("volume copy", v, o.copy)))
              ELSE Acc(Append(acc.restored, v),
                       [acc.rt EXCEPT !.volumes = vols], created)

\* One iteration of restore_volumes for volumes/<v>.json. o.check, o.create
\* and o.copy are the results of `docker volume ls`, `docker volume create`
\* and of the data mover.
RestoreVolume(acc, v, o, root) ==
    LET exists == v \in DOMAIN acc.rt.volumes
        found == o.check = "ok" /\ exists
        checked == Append(acc.cmds,
                          Cmd("volume ls", v, IF found THEN "found" ELSE "absent"))
    IN
    IF found
    THEN Acc(Append(acc.restored, v), acc.rt, checked)
    ELSE LET created == Append(checked, Cmd("volume create", v, o.create)) IN
         IF o.create # "ok" THEN Acc(acc.restored, acc.rt, created)
         ELSE LET vols == IF exists THEN acc.rt.volumes
                          ELSE (v :> EmptyData) @@ acc.rt.volumes
              IN
              IF v \in DOMAIN root.volumes_data
              THEN Acc(Append(acc.restored, v),
                       [acc.rt EXCEPT !.volumes =
                           IF o.copy = "ok"
                           THEN [vols EXCEPT ![v] = CopyInto(@, root.volumes_data[v])]
                           ELSE vols],
                       Append(created, Cmd("volume copy", v, o.copy)))
              ELSE Acc(Append(acc.restored, v),
                       [acc.rt EXCEPT !.volumes = vols], created)

RECURSIVE RestoreVolumesLoop(_, _, _, _)
RestoreVolumesLoop(acc, names, out, root) ==
    IF names = <<>> THEN acc
    ELSE RestoreVolumesLoop(RestoreVolume(acc, Head(names), out[Head(names)], root),
                            Tail(names), out, root)

\* restore_volumes(backup_dir)
RestoreVolumes(root, rt, out) ==
    IF "volumes" \notin root.dirs THEN Acc(<<>>, rt, <<>>)
    ELSE RestoreVolumesLoop(Acc(<<>>, rt, <<>>), ListDir(root.volumes_meta), out, root)

\* One iteration of restore_containers for a descriptor d of containers.json,
\* given the lists `networks` and `volumes` passed by the caller.
\* A faulty variant of WellFormedEnv: every entry is passed.
WellFormedEnvAny(e) == TRUE

\* Line 586: `'=' in env`
WellFormedEnv(e) == \E i \in DOMAIN e : e[i] = "="

\* A faulty variant of InvalidDescriptor: the image is not looked at.
InvalidDescriptorNameOnly(d) == d.Name = ""

\* Line 545: `not container_name or not image`
InvalidDescriptor(d) == d.Name = "" \/ d.Image = <<>>

RestoreContainer(acc, d, o, nets, vols) ==
    IF InvalidDescriptor(d) THEN acc
    ELSE LET found == o.check = "ok" /\ d.Name \in DOMAIN acc.rt.containers
             checked == Append(acc.cmds,
                               Cmd("ps", d.Name, IF found THEN "found" ELSE "absent"))
             made == Created(o.create, d.Name, DOMAIN acc.rt.containers)
         IN
         IF found
         THEN Acc(Append(acc.restored, d.Name), acc.rt, checked)
         ELSE LET issued == Append(checked, Cmd("run", d.Name,
                                               IF made THEN "ok" ELSE "fail"))
                  invocation == [volumes |-> d.HostMounts \cap vols,
                                 networks |-> d.Networks \cap nets,
                                 env |-> {e \in d.Env : WellFormedEnv(e)}]
              IN
              IF made
              THEN Acc(Append(acc.restored, d.Name),
                       [acc.rt EXCEPT !.containers = (d.Name :> invocation) @@ @],
                       issued)
              ELSE Acc(acc.restored, acc.rt, issued)

RECURSIVE RestoreContainersLoop(_, _, _, _, _)
RestoreContainersLoop(acc, ds, out, nets, vols) ==
    IF ds = <<>> THEN acc
    ELSE RestoreContainersLoop(
             RestoreContainer(acc, Head(ds), Head(out), nets, vols),
             Tail(ds), Tail(out), nets, vols)

\* restore_containers(backup_dir, networks, volumes)
RestoreContainers(root, rt, out, nets, vols) ==
    IF ~root.has_containers_json THEN Acc(<<>>, rt, <<>>)
    ELSE RestoreContainersLoop(Acc(<<>>, rt, <<>>), root.containers_json, out,
                               Range(nets), Range(vols))

-----------------------------------------------------------------------------
(* restore_docker_backup                                                   *)

NothingExtracted == [root |-> EmptyBackupDir, members |-> <<>>]
NoVolumeData == [made |-> FALSE, data |-> <<>>]

\* Outcomes of the commands of one loop iteration.
StepOutcomes == [check : CommandOutcomes, create : CommandOutcomes, copy : CommandOutcomes]
LoadOutcomes == {"fail", "named", "unnamed"}

\* tar.extractall(path = dir) of a member archive into a directory.
WritePayload(dir, payload) ==
    [dir EXCEPT !.files = @ \cup payload.files,
                !.compose = IF payload.compose.present THEN payload.compose ELSE @]

\* extract_backup: mkdtemp, then the archive is unpacked or ValueError raised
ExtractBackup ==
    /\ rpc = "start"
    /\ mode = "restore"
    /\ tmpdirs' = tmpdirs \cup {<<"docker_restore_", run>>}
    /\ IF archive.readable
       THEN /\ extracted' = [root |-> archive.root, members |-> archive.members]
            /\ rpc' = "appfiles"
       ELSE /\ extracted' = extracted
            /\ rpc' = "raised"
    /\ UNCHANGED <<bvars, archive, mode, run, cwd, target, restored_images,
                   restored_networks, restored_volumes, restored_containers,
                   temp_volumes_data, cmds, before, path>>
    /\ UNCHANGED <<ivars, supplied, tvars>>

\* The loop of extract_application_files: positions of the members named
\* current_dir_*.tar; the first one is taken (break).
CurrentDirTars(members) ==
    {i \in DOMAIN members :
        StartsWith(members[i], "current_dir_") /\ EndsWith(members[i], ".tar")}

First(I) == CHOOSE i \in I : \A j \in I : i <= j

\* extract_application_files(backup_file, current_dir): its temporary
\* directory is removed in the finally block on both exits.
ExtractApplicationFiles ==
    /\ rpc = "appfiles"
    /\ LET found == CurrentDirTars(extracted.members) IN
       IF found = {}
       THEN /\ cwd' = cwd
            /\ rpc' = "images"
       ELSE IF extracted.members[First(found)].istar
       THEN /\ cwd' = WritePayload(cwd, extracted.members[First(found)].payload)
            /\ rpc' = "images"
       ELSE /\ cwd' = cwd
            /\ rpc' = "raised"
    /\ UNCHANGED <<bvars, archive, mode, run, extracted, tmpdirs, target,
                   restored_images, restored_networks, restored_volumes,
                   restored_containers, temp_volumes_data, cmds, before, path>>
    /\ UNCHANGED <<ivars, supplied, tvars>>

LoadImages ==
    /\ rpc = "images"
    /\ \E out \in [DOMAIN extracted.root.images -> LoadOutcomes] :
         LET r == RestoreImages(extracted.root, target, out) IN
         /\ restored_images' = r.restored
         /\ target' = r.rt
         /\ cmds' = cmds \o r.cmds
    /\ rpc' = "topology"
    /\ UNCHANGED <<bvars, archive, mode, run, extracted, tmpdirs, cwd,
                   restored_networks, restored_volumes, restored_containers,
                   temp_volumes_data, before, path>>
    /\ UNCHANGED <<ivars, supplied, tvars>>

\* The pre-check loop over the keys of compose_data['networks']: the
\* in-memory entries, the commands issued, and whether the assignment
\* compose_data['networks'][network]['external'] = True raised (the entry
\* is None), which ends the loop.
RECURSIVE PreCheckLoop(_, _, _, _)
PreCheckLoop(st, names, out, rt) ==
    IF names = <<>> \/ st.raised THEN st
    ELSE LET n == Head(names)
             found == out[n] = "ok" /\ n \in rt.networks
             issued == Append(st.cmds, Cmd("precheck network ls", n,
                                           IF found THEN "found" ELSE "absent"))
         IN
         IF found
         THEN IF st.entries[n] = "null"
              THEN [st EXCEPT !.cmds = issued, !.raised = TRUE]
              ELSE PreCheckLoop([st EXCEPT !.cmds = issued, !.entries[n] = "external"],
                                Tail(names), out, rt)
         ELSE PreCheckLoop([st EXCEPT !.cmds = issued], Tail(names), out, rt)

\* The compose file on disk after the try block of lines 659-690: rewritten
\* by yaml.dump when the loop ended without an exception.
ComposeAfterPreCheck(compose, st) ==
    IF compose.has_networks /\ ~st.raised
    THEN [compose EXCEPT !.networks = st.entries, !.dumped = TRUE]
    ELSE compose

\* Lines 644-690: the copy of volumes/ and the network pre-check.
ComposePrepare ==
    /\ rpc = "topology"
    /\ cwd.compose.present
    /\ IF "volumes" \in extracted.root.dirs
       THEN /\ temp_volumes_data' = [made |-> TRUE, data |-> extracted.root.volumes_data]
            /\ tmpdirs' = tmpdirs \cup {<<"volume_data", run>>}
       ELSE /\ temp_volumes_data' = NoVolumeData
            /\ tmpdirs' = tmpdirs
    /\ \E out \in [DOMAIN cwd.compose.networks -> CommandOutcomes] :
         LET st == PreCheckLoop([entries |-> cwd.compose.networks, cmds |-> <<>>,
                                 raised |-> FALSE],
                                ListDir(DOMAIN cwd.compose.networks), out, target)
         IN /\ cwd' = [cwd EXCEPT !.compose = ComposeAfterPreCheck(@, st)]
            /\ cmds' = cmds \o st.cmds
    /\ path' = "declarative"
    /\ rpc' = "compose_up"
    /\ UNCHANGED <<bvars, archive, mode, run, extracted, target, restored_images,
                   restored_networks, restored_volumes, restored_containers, before>>
    /\ UNCHANGED <<ivars, supplied, tvars>>

\* What a successful `docker compose up -d` leaves on the host: the
\* networks of the file that are not external, created with the compose
\* label, its volumes and the containers of its services.
ComposeCreate(rt, compose) ==
    LET made == {n \in DOMAIN compose.networks : compose.networks[n] # "external"}
        newvols == compose.volumes \ DOMAIN rt.volumes
        newcs == compose.services \ DOMAIN rt.containers
    IN [rt EXCEPT
          !.networks = @ \cup made,
          !.labelled = @ \cup made,
          !.volumes = [v \in newvols |-> EmptyData] @@ @,
          !.containers = [c \in newcs |-> [volumes |-> compose.volumes,
                                           networks |-> DOMAIN compose.networks,
                                           env |-> {}]] @@ @]

\* Lines 707-723: the captured data of each directory of temp_volumes_data
\* is copied into the volume of that name through a placeholder container
\* (`docker run -v <name>:/target` creates a volume that does not exist).
ReplayVolumeData(vols, data, copied) ==
    [v \in DOMAIN vols \cup copied |->
        IF v \in copied
        THEN CopyInto(IF v \in DOMAIN vols THEN vols[v] ELSE EmptyData, data[v])
        ELSE vols[v]]

\* Lines 692-731: docker compose up, then the status queries and the volume
\* data on success, or the switch to the direct restoration on failure.
ComposeUp ==
    /\ rpc = "compose_up"
    /\ \E up \in CommandOutcomes, ps \in CommandOutcomes, ls \in CommandOutcomes,
          copied \in SUBSET DOMAIN temp_volumes_data.data :
         IF up = "ok"
         THEN LET rt == ComposeCreate(target, cwd.compose) IN
              /\ target' = [rt EXCEPT !.volumes =
                               ReplayVolumeData(@, temp_volumes_data.data, copied)]
              /\ restored_containers' =
                    IF ps = "ok" THEN ListDir(cwd.compose.services) ELSE <<>>
              /\ restored_networks' =
                    IF ls = "ok" THEN ListDir(rt.labelled) ELSE <<>>
              /\ tmpdirs' = IF temp_volumes_data.made
                            THEN tmpdirs \ {<<"volume_data", run>>} ELSE tmpdirs
              /\ cmds' = cmds \o <<Cmd("compose up", "", "ok"), Cmd("compose ps", "", ps),
                                 Cmd("compose network ls", "", ls)>>
                               \o [i \in 1..Len(ListDir(DOMAIN temp_volumes_data.data)) |->
                                     LET v == ListDir(DOMAIN temp_volumes_data.data)[i] IN
                                     Cmd("volume replay", v,
                                         IF v \in copied THEN "ok" ELSE "fail")]
              /\ path' = path
              /\ rpc' = "report"
         ELSE /\ ps = "ok" /\ ls = "ok" /\ copied = {}
              /\ cmds' = Append(cmds, Cmd("compose up", "", "fail"))
              /\ path' = "fallback"
              /\ rpc' = "networks"
              /\ UNCHANGED <<target, restored_containers, restored_networks, tmpdirs>>
    /\ UNCHANGED <<bvars, archive, mode, run, extracted, cwd, restored_images,
                   restored_volumes, temp_volumes_data, before>>
    /\ UNCHANGED <<ivars, supplied, tvars>>

\* A faulty variant of PhaseAfter: the containers are created before the
\* volumes are restored.
PhaseAfterContainersFirst(pos) ==
    CASE pos = "topology" -> "containers"
      [] pos = "networks" -> "containers"
      [] pos = "containers" -> "volumes"
      [] OTHER -> "report"

\* The statement that follows a direct restoration call: lines 737-739
\* (restore_networks, restore_volumes, restore_containers) when there is no
\* compose file, lines 730-731 (restore_networks, restore_containers) in
\* the fallback, then the report. pos is the position of the call made.
PhaseAfter(pos) ==
    CASE pos = "topology" -> "volumes"
      [] pos = "networks" -> "containers"
      [] pos = "volumes" -> "containers"
      [] OTHER -> "report"

\* restore_networks, called at line 730 (fallback) or 737 (no compose file)
RestoreNetworksCall ==
    /\ \/ rpc = "networks"
       \/ rpc = "topology" /\ ~cwd.compose.present
    /\ \E out \in [extracted.root.networks -> StepOutcomes] :
         LET r == RestoreNetworks(extracted.root, target, out) IN
         /\ \A n \in extracted.root.networks : out[n].copy = "ok"
         /\ restored_networks' = r.restored
         /\ target' = r.rt
         /\ cmds' = cmds \o r.cmds
    /\ path' = IF rpc = "topology" THEN "imperative" ELSE path
    /\ rpc' = PhaseAfter(rpc)
    /\ UNCHANGED <<bvars, archive, mode, run, extracted, tmpdirs, cwd,
                   restored_images, restored_volumes, restored_containers,
                   temp_volumes_data, before>>
    /\ UNCHANGED <<ivars, supplied, tvars>>

\* restore_volumes, called at line 738 only
RestoreVolumesCall ==
    /\ rpc = "volumes"
    /\ \E out \in [extracted.root.volumes_meta -> StepOutcomes] :
         LET r == RestoreVolumes(extracted.root, target, out) IN
         /\ restored_volumes' = r.restored
         /\ target' = r.rt
         /\ cmds' = cmds \o r.cmds
    /\ rpc' = PhaseAfter(rpc)
    /\ UNCHANGED <<bvars, archive, mode, run, extracted, tmpdirs, cwd,
                   restored_images, restored_networks, restored_containers,
                   temp_volumes_data, before, path>>
    /\ UNCHANGED <<ivars, supplied, tvars>>

\* The `volumes` argument of restore_containers: [] at line 731,
\* restored_volumes at line 739.
VolumesArgument(branch, vols) == IF branch = "fallback" THEN <<>> ELSE vols

RestoreContainersCall ==
    /\ rpc = "containers"
    /\ \E out \in [1..Len(extracted.root.containers_json) -> StepOutcomes] :
         LET r == RestoreContainers(extracted.root, target, out, restored_networks,
                                    VolumesArgument(path, restored_volumes))
         IN
         /\ \A i \in DOMAIN out : out[i].copy = "ok"
         /\ restored_containers' = r.restored
         /\ target' = r.rt
         /\ cmds' = cmds \o r.cmds
    /\ rpc' = PhaseAfter(rpc)
    /\ UNCHANGED <<bvars, archive, mode, run, extracted, tmpdirs, cwd,
                   restored_images, restored_networks, restored_volumes,
                   temp_volumes_data, before, path>>
    /\ UNCHANGED <<ivars, supplied, tvars>>

\* Lines 741-744: the summary is printed and the tuple returned to main.
Return ==
    /\ rpc = "report"
    /\ rpc' = "done"
    /\ UNCHANGED <<bvars, archive, mode, run, extracted, tmpdirs, cwd, target,
                   restored_images, restored_networks, restored_volumes,
                   restored_containers, temp_volumes_data, cmds, before, path>>
    /\ UNCHANGED <<ivars, supplied, tvars>>

\* The same archive is restored once more against the same target.
NextCall ==
    /\ rpc = "done"
    /\ mode = "restore"
    /\ run < MaxRuns
    /\ run' = run + 1
    /\ before' = target
    /\ extracted' = NothingExtracted
    /\ restored_images' = <<>>
    /\ restored_networks' = <<>>
    /\ restored_volumes' = <<>>
    /\ restored_containers' = <<>>
    /\ temp_volumes_data' = NoVolumeData
    /\ cmds' = <<>>
    /\ path' = "none"
    /\ rpc' = "start"
    /\ UNCHANGED <<bvars, archive, mode, tmpdirs, cwd, target>>
    /\ UNCHANGED <<ivars, supplied, tvars>>

-----------------------------------------------------------------------------
(* main, restore mode with --extract-only                                  *)

\* One iteration of the loop of main over os.listdir(temp_dir)
ExtractInner(dir, m) ==
    IF EndsWith(m, ".tar") /\ m.istar
    THEN IF StartsWith(m, "additional_path_")
         THEN [dir EXCEPT !.additional_path = @ \cup m.payload.files]
         ELSE WritePayload(dir, m.payload)
    ELSE dir

RECURSIVE ExtractInnerLoop(_, _)
ExtractInnerLoop(dir, members) ==
    IF members = <<>> THEN dir
    ELSE ExtractInnerLoop(ExtractInner(dir, Head(members)), Tail(members))

\* A faulty variant of MainExtractOnly: the images of the archive are
\* loaded as well.
MainExtractOnlyLoading ==
    /\ rpc = "start"
    /\ mode = "extract_only"
    /\ IF archive.readable
       THEN LET r == RestoreImages(archive.root, target,
                                   [b \in DOMAIN archive.root.images |-> "named"]) IN
            /\ cwd' = ExtractInnerLoop(cwd, archive.members)
            /\ tmpdirs' = tmpdirs
            /\ target' = r.rt
            /\ cmds' = cmds \o r.cmds
            /\ restored_images' = r.restored
            /\ rpc' = "done"
       ELSE /\ cwd' = cwd
            /\ tmpdirs' = tmpdirs \cup {<<"docker_extract_", run>>}
            /\ rpc' = "raised"
            /\ UNCHANGED <<target, cmds, restored_images>>
    /\ UNCHANGED <<bvars, archive, mode, run, extracted,
                   restored_networks, restored_volumes, restored_containers,
                   temp_volumes_data, before, path>>
    /\ UNCHANGED <<ivars, supplied, tvars>>

\* main, lines 121-150: tarfile.open raises on an unreadable archive after
\* mkdtemp; otherwise the inner archives are routed and temp_dir removed.
MainExtractOnly ==
    /\ rpc = "start"
    /\ mode = "extract_only"
    /\ IF archive.readable
       THEN /\ cwd' = ExtractInnerLoop(cwd, archive.members)
            /\ tmpdirs' = tmpdirs
            /\ rpc' = "done"
       ELSE /\ cwd' = cwd
            /\ tmpdirs' = tmpdirs \cup {<<"docker_extract_", run>>}
            /\ rpc' = "raised"
    /\ UNCHANGED <<bvars, archive, mode, run, extracted, target, restored_images,
                   restored_networks, restored_volumes, restored_containers,
                   temp_volumes_data, cmds, before, path>>
    /\ UNCHANGED <<ivars, supplied, tvars>>

\* A faulty variant of ExitStatus: main catches the exception and returns.
ExitStatusSwallowing(pc) == 0

\* Exit status of the interpreter for main() at lines 159-160: main has no
\* sys.exit and no handler around its body, so a normal return ends the
\* process with 0 and an exception that leaves main ends it with 1.
ExitStatus(pc) == IF pc = "raised" THEN 1 ELSE 0

RestoreNext ==
    \/ ExtractBackup
    \/ ExtractApplicationFiles
    \/ LoadImages
    \/ ComposePrepare
    \/ ComposeUp
    \/ RestoreNetworksCall
    \/ RestoreVolumesCall
    \/ RestoreContainersCall
    \/ Return
    \/ NextCall
    \/ MainExtractOnly

-----------------------------------------------------------------------------
(* create_archives                                                         *)

\* The outer archive create_archives writes for a backup directory:
\* docker_backup_<timestamp>.tar.gz holding the directory under its own
\* name, current_dir_<timestamp>.tar.gz when current_dir_path is given,
\* additional_files_<timestamp>.tar.gz when additional_files is not empty,
\* and README.txt.
CreateArchive(tree, app, additional) ==
    [readable |-> TRUE,
     root |-> EmptyBackupDir,
     members |->
        <<Member("docker_backup_", ".tar.gz", TRUE, BackupPayload(tree))>>
        \o (IF app.files # {}
            THEN <<Member("current_dir_", ".tar.gz", TRUE, app)>> ELSE <<>>)
        \o (IF additional
            THEN <<Member("additional_files_", ".tar.gz", TRUE, AdditionalPayload)>> ELSE <<>>)
        \o <<Member("README", ".txt", FALSE, NoPayload)>>]

\* What the caller of the packaging step supplies besides the backup
\* directory: the application directory (NoPayload: none), whether the list
\* of additional files is non-empty, whether an extra path is given.
Supplied(app, additional, extra) ==
    [app |-> app, additional |-> additional, extra |-> extra]
NothingSupplied == Supplied(NoPayload, FALSE, FALSE)

\* create_archives(docker_backup_path, current_dir_path, additional_files)
\* on the backup directory backup_docker_data returned; the archive is then
\* carried to the target host and handed to the restore.
CreateArchives ==
    /\ bpc = "done"
    /\ rpc = "idle"
    /\ \E app \in {NoPayload, AppPayload, AppComposePayload}, additional \in BOOLEAN :
         /\ archive' = CreateArchive(backup_dir, app, additional)
         /\ supplied' = Supplied(app, additional, FALSE)
    /\ bpc' = "archived"
    /\ rpc' = "start"
    /\ UNCHANGED <<images, containers, networks, containers_json,
                   volumes_to_backup, existing_networks, backup_dir, dropped,
                   mode, run, extracted, tmpdirs, cwd, target, restored_images,
                   restored_networks, restored_volumes, restored_containers,
                   temp_volumes_data, cmds, before, path>>
    /\ UNCHANGED <<ivars, tvars>>

\* Positional parameters of create_archives, and positional arguments of the
\* call main makes in backup mode.
CreateArchivesParameters == 3
MainCallArguments == 4

\* main, backup mode, lines 80-87: create_archives(docker_backup_path,
\* current directory or None, additional_files, additional_path). A call
\* with more positional arguments than the function has parameters raises
\* TypeError before the body runs, whatever the values are.
MainCreateArchives ==
    /\ bpc = "done"
    /\ rpc = "idle"
    /\ \E app \in {NoPayload, AppPayload, AppComposePayload},
          additional \in BOOLEAN, extra \in BOOLEAN :
         /\ supplied' = Supplied(app, additional, extra)
         /\ IF MainCallArguments <= CreateArchivesParameters
            THEN /\ archive' = CreateArchive(backup_dir, app, additional)
                 /\ bpc' = "archived"
                 /\ rpc' = "start"
            ELSE /\ archive' = archive
                 /\ bpc' = "raised"
                 /\ rpc' = rpc
    /\ UNCHANGED <<images, containers, networks, containers_json,
                   volumes_to_backup, existing_networks, backup_dir, dropped,
                   mode, run, extracted, tmpdirs, cwd, target, restored_images,
                   restored_networks, restored_volumes, restored_containers,
                   temp_volumes_data, cmds, before, path>>
    /\ UNCHANGED <<ivars, tvars>>

-----------------------------------------------------------------------------
(* main, backup mode, lines 89-113, and transfer_files                     *)

\* A file system: the directories and the regular files that exist, each a
\* path (sequence of names below the root); files carry their content.
EmptyFs == [dirs |-> {<<>>}, files |-> <<>>]

NoArgs ==
    [transfer |-> FALSE, destination |-> <<>>, ftp_user |-> "", ftp_pass |-> "",
     no_prompt |-> FALSE]

TransferIdle ==
    /\ tpc = "idle"
    /\ args = NoArgs
    /\ destination = <<>>
    /\ prompts = <<>>
    /\ handler = "none"
    /\ fs = EmptyFs
    /\ returned = "none"
    /\ outcome = "none"

\* A destination is a string, modelled as the sequence of its characters.
\* s.startswith(p), c in s, s.split(c, 1), s[n:]
StartsWithSeq(s, p) == Len(s) >= Len(p) /\ SubSeq(s, 1, Len(p)) = p
Has(s, c) == c \in Range(s)
IndexOf(s, c) == CHOOSE i \in DOMAIN s : s[i] = c /\ \A j \in 1..(i - 1) : s[j] # c
SplitOnce(s, c) == <<SubSeq(s, 1, IndexOf(s, c) - 1), SubSeq(s, IndexOf(s, c) + 1, Len(s))>>
From(s, n) == SubSeq(s, n + 1, Len(s))

FtpScheme == <<"f", "t", "p", ":", "/", "/">>

\* The names between the slashes of a path, empty ones dropped
RECURSIVE Components(_)
Components(s) ==
    IF s = <<>> THEN <<>>
    ELSE IF ~Has(s, "/") THEN <<s>>
    ELSE LET parts == SplitOnce(s, "/") IN
         (IF parts[1] = <<>> THEN <<>> ELSE <<parts[1]>>) \o Components(parts[2])

\* The process runs in Cwd, where create_archives wrote the archive
\* (archiver.py line 60); the user's home directory is Home.
Cwd == << <<"w">> >>
Home == << <<"h">> >>
ArchiveName == <<"A">>
ArchivePath == Cwd \o <<ArchiveName>>
ArchiveContent == "bytes"

\* os.path.abspath(os.path.expanduser(destination)) as a path
Abs(dest) ==
    IF dest # <<>> /\ dest[1] = "/" THEN Components(dest)
    ELSE IF dest # <<>> /\ dest[1] = "~" THEN Home \o Components(Tail(dest))
    ELSE Cwd \o Components(dest)

\* os.path.dirname of an absolute path; the path and its ancestors
Dirname(pth) == IF pth = <<>> THEN <<>> ELSE SubSeq(pth, 1, Len(pth) - 1)
Ancestors(pth) == {SubSeq(pth, 1, k) : k \in 0..Len(pth)}

\* What transfer_files hands back to its caller
Transfer(h, asked, ret, disk) ==
    [handler |-> h, prompts |-> asked, returned |-> ret, fs |-> disk]

\* Lines 29-79. tty: "answered" when input() returns, "eof" when it raises
\* EOFError (no terminal). send: outcome of the FTP session.
FtpTransfer(dest, disk, env) ==
    LET ftp_url == From(dest, 6)
        asked == IF Has(ftp_url, "@")
                 THEN IF Has(SplitOnce(ftp_url, "@")[1], ":") THEN <<>>
                      ELSE <<"ftp password">>
                 ELSE <<"ftp username", "ftp password">>
    IN
    IF asked # <<>> /\ env.tty = "eof"
    THEN Transfer("ftp", <<Head(asked)>>, "False", disk)
    ELSE Transfer("ftp", asked, IF env.send = "ok" THEN "True" ELSE "False", disk)

\* Lines 82-98. send: "ok" iff scp exits with status 0.
ScpTransfer(dest, disk, env) ==
    Transfer("scp", <<>>, IF env.send = "ok" THEN "True" ELSE "False", disk)

\* Lines 111-116: the path the archive is copied to
LocalTarget(dest, disk) ==
    IF Abs(dest) \in disk.dirs THEN Abs(dest) \o <<ArchiveName>> ELSE Abs(dest)

\* shutil.copy2(archive_path, dst): a dst that is a directory receives the
\* file under its base name; the copy raises when the final path is a
\* directory, is the source itself, or names a missing directory (a
\* trailing slash); copy: outcome of the write.
Copy2(dest, dst, disk, env) ==
    LET final == IF dst \in disk.dirs THEN dst \o <<ArchiveName>> ELSE dst IN
    IF \/ final \in disk.dirs
       \/ final = ArchivePath
       \/ Dirname(final) \notin disk.dirs
       \/ (dst \notin disk.dirs /\ dest[Len(dest)] = "/")
       \/ env.copy # "ok"
    THEN Transfer("local", <<>>, "False", disk)
    ELSE Transfer("local", <<>>, "True",
                  [disk EXCEPT !.files = (final :> ArchiveContent) @@ @])

\* A faulty variant of LocalCopy: the parent directories are not created.
LocalCopyNoMakedirs(dest, disk, env) ==
    Copy2(dest, LocalTarget(dest, disk), disk, env)

\* Lines 99-120. os.makedirs(parent, exist_ok=True) raises when a file is in
\* the way.
LocalCopy(dest, disk, env) ==
    LET parent == Dirname(Abs(dest))
        made == [disk EXCEPT !.dirs = @ \cup Ancestors(parent)]
    IN
    IF Ancestors(parent) \cap DOMAIN disk.files # {}
    THEN Transfer("local", <<>>, "False", disk)
    ELSE Copy2(dest, LocalTarget(dest, made), made, env)

\* transfer_files(archive_path, destination): every exception is caught at
\* line 122 and turned into the result False.
TransferFiles(dest, disk, env) ==
    IF StartsWithSeq(dest, FtpScheme) THEN FtpTransfer(dest, disk, env)
    ELSE IF Has(dest, ":") /\ Has(dest, "@") THEN ScpTransfer(dest, disk, env)
    ELSE LocalCopy(dest, disk, env)

\* Outcomes of the I/O of one call of transfer_files
Envs == [tty : {"answered", "eof"}, send : CommandOutcomes, copy : CommandOutcomes]

\* main, lines 102-109: --ftp-user / --ftp-pass are written into an ftp://
\* destination that carries no credentials.
MergeCredentials(dest, a) ==
    IF StartsWithSeq(dest, FtpScheme) /\ a.ftp_user # "" /\ ~Has(From(dest, 6), "@")
    THEN FtpScheme \o <<a.ftp_user, ":">>
         \o (IF a.ftp_pass # "" THEN <<a.ftp_pass>> ELSE <<>>)
         \o <<"@">> \o From(dest, 6)
    ELSE dest

\* Destinations: /d, /d/n, /n/x, /n/, /f/x, d, ~/d (local paths),
\* /a@b:c and a:b (local paths holding the characters of a remote one),
\* u@h:/d (secure copy), ftp://u:p@h/d, ftp://u@h/d, ftp://h/d, ftp://h
LocalDestinations ==
    { <<"/", "d">>, <<"/", "d", "/", "n">>, <<"/", "n", "/", "x">>, <<"/", "n", "/">>,
      <<"/", "f", "/", "x">>, <<"d">>, <<"~", "/", "d">>,
      <<"/", "a", "@", "b", ":", "c">>, <<"a", ":", "b">> }
ScpDestinations == { <<"u", "@", "h", ":", "/", "d">> }
FtpDestinations ==
    { FtpScheme \o <<"u", ":", "p", "@", "h", "/", "d">>,
      FtpScheme \o <<"u", "@", "h", "/", "d">>,
      FtpScheme \o <<"h", "/", "d">>,
      FtpScheme \o <<"h">> }
Destinations == LocalDestinations \cup ScpDestinations \cup FtpDestinations

\* What the user types at the prompt of line 99
TypedDestinations == { <<>>, <<"/", "d">>, FtpScheme \o <<"h", "/", "d">> }

\* File systems of the host: the archive in the working directory; /d a
\* directory, empty or holding an older copy; /d and /f regular files.
BaseFs == [dirs |-> {<<>>, Cwd, Home}, files |-> (ArchivePath :> ArchiveContent)]
FsDir == [BaseFs EXCEPT !.dirs = @ \cup {<< <<"d">> >>}]
FsDirOld == [FsDir EXCEPT !.files = (<< <<"d">>, ArchiveName >> :> "old") @@ @]
FsFiles ==
    [BaseFs EXCEPT !.files = (<< <<"d">> >> :> "old") @@ (<< <<"f">> >> :> "old") @@ @]
Filesystems == {BaseFs, FsDir, FsDirOld, FsFiles}

\* Command lines of main in backup mode, as far as lines 89-113 read them
ArgSets ==
    [transfer : BOOLEAN, destination : Destinations \cup {<<>>},
     ftp_user : {"", "u"}, ftp_pass : {"", "p"}, no_prompt : BOOLEAN]

\* main, lines 89-100: whether to transfer, and where to
MainTransferDecision ==
    /\ tpc = "decide"
    /\ IF args.transfer /\ args.destination # <<>>
       THEN /\ destination' = args.destination
            /\ prompts' = prompts
            /\ tpc' = "transfer"
       ELSE IF ~args.no_prompt
       THEN \E answer \in {"yes", "no"}, typed \in TypedDestinations :
              IF answer = "no"
              THEN /\ destination' = destination
                   /\ prompts' = Append(prompts, "transfer?")
                   /\ tpc' = "finish"
              ELSE /\ destination' = typed
                   /\ prompts' = prompts \o <<"transfer?", "destination">>
                   /\ tpc' = IF typed # <<>> THEN "transfer" ELSE "finish"
       ELSE /\ destination' = destination
            /\ prompts' = prompts
            /\ tpc' = "finish"
    /\ UNCHANGED <<ivars, bvars, archive, rvars, supplied, args, handler, fs, returned, outcome>>

\* main, lines 102-111: the credentials are merged and transfer_files is
\* called; its result is not bound to a name.
MainTransfer ==
    /\ tpc = "transfer"
    /\ \E env \in Envs :
         LET dest == MergeCredentials(destination, args)
             r == TransferFiles(dest, fs, env)
         IN
         /\ destination' = dest
         /\ prompts' = prompts \o r.prompts
         /\ handler' = r.handler
         /\ fs' = r.fs
         /\ returned' = r.returned
    /\ tpc' = "finish"
    /\ UNCHANGED <<ivars, bvars, archive, rvars, supplied, args, outcome>>

\* main, line 113: the closing message; main returns normally
MainFinish ==
    /\ tpc = "finish"
    /\ outcome' = "completed"
    /\ tpc' = "done"
    /\ UNCHANGED <<ivars, bvars, archive, rvars, supplied, args, destination, prompts,
                   handler, fs, returned>>

TransferNext == MainTransferDecision \/ MainTransfer \/ MainFinish

-----------------------------------------------------------------------------
(* Inputs of the restore                                                   *)

\* A backup directory tree with every directory present.
Tree(imgs, nets, meta, data, cs) ==
    [containers_json |-> cs, has_containers_json |-> TRUE,
     images |-> imgs, networks |-> nets, volumes_meta |-> meta,
     volumes_data |-> data, dirs |-> {"images", "networks", "volumes"},
     manifest |-> [written |-> TRUE, images |-> <<>>, containers |-> <<>>,
                   networks |-> <<>>, volumes |-> {}]]

\* A descriptor with an empty Name, which restore_containers drops.
Nameless == [Descriptor("web") EXCEPT !.Name = ""]
\* A descriptor without Config.Image, dropped as well.
Imageless == [Descriptor("db") EXCEPT !.Image = <<>>]

\* images/ after two images were saved
TwoImages ==
    (Escape(<<"a", "/", "b">>) :> <<"a", "/", "b">>)
    @@ (Escape(<<"c", ":", "1">>) :> <<"c", ":", "1">>)

\* One resource of each kind, the container using the network and the volume
TreeOne ==
    Tree(<<>>, {"appnet"}, {"dbdata"}, ("dbdata" :> SourceData("dbdata")),
         <<Descriptor("web")>>)
\* Image blobs only
TreeImages == Tree(TwoImages, {}, {}, <<>>, <<>>)
\* A default network beside appnet, a volume without a data directory, a
\* descriptor without a name and one without an image before a valid one
TreeOdd ==
    Tree(<<>>, {"appnet", "bridge"}, {"dbdata"}, <<>>,
         <<Nameless, Imageless, Descriptor("web")>>)

\* One resource of each kind and the image of the container
TreeFull ==
    Tree((Escape(<<"a", "/", "b">>) :> <<"a", "/", "b">>), {"appnet"}, {"dbdata"},
         ("dbdata" :> SourceData("dbdata")), <<Descriptor("web")>>)

BackupTrees == {TreeOne, TreeImages, TreeOdd, TreeFull}

FlatArchive(t, ms) == [readable |-> TRUE, root |-> t, members |-> ms]

CurrentDirTar(payload) == Member("current_dir_", ".tar", TRUE, payload)

\* Outer archives of role-prefixed inner archives, in both listing orders,
\* and one whose current_dir_*.tar is not a tar file.
RoutingArchives ==
    {FlatArchive(EmptyBackupDir, ms) :
        ms \in { <<CurrentDirTar(AppPayload),
                   Member("docker_src_base_dir_", ".tar", TRUE, ExtraPayload)>>,
                 <<Member("docker_src_base_dir_", ".tar", TRUE, ExtraPayload),
                   CurrentDirTar(AppPayload)>>,
                 <<CurrentDirTar(AppPayload),
                   Member("additional_path_", ".tar", TRUE, ExtraPayload)>>,
                 <<Member("additional_path_", ".tar", TRUE, ExtraPayload),
                   CurrentDirTar(AppPayload)>>,
                 <<Member("current_dir_", ".tar", FALSE, NoPayload)>> }}

\* Tars of a backup directory (its content at the top level), alone or
\* beside an application archive that holds a docker-compose.yml.
BackupArchives ==
    {FlatArchive(t, <<>>) : t \in BackupTrees}
    \cup {FlatArchive(TreeOne, <<CurrentDirTar(AppComposePayload)>>)}

\* Archives handed to the restore, with what create_archives produces for
\* a backup directory and an application directory.
RestoreArchives ==
    {UnreadableArchive, CreateArchive(TreeOne, AppComposePayload, FALSE)}
    \cup BackupArchives \cup RoutingArchives

\* Target hosts: the default networks, and any of appnet, the volume dbdata
\* and the container web left by an earlier deployment.
TargetRuntimes ==
    { [EmptyRuntime EXCEPT
         !.networks = @ \cup nets,
         !.volumes = [v \in vols |-> OldData],
         !.containers = [c \in cs |-> [volumes |-> {}, networks |-> {}, env |-> {}]]] :
      nets \in SUBSET {"appnet"}, vols \in SUBSET {"dbdata"}, cs \in SUBSET {"web"} }

\* Working directories of the target host before the restore.
TargetDirs ==
    {[files |-> {}, additional_path |-> {}, compose |-> c] :
        c \in {NoCompose, ComposeWeb, ComposeNullNet}}

\* The inputs of one restore. Inputs that no statement of the code relates
\* are not multiplied: only a restore of a backup directory reads the
\* runtime, and only --extract-only off reads docker-compose.yml.
Scenario(a, m, dir, rt) ==
    /\ a \notin BackupArchives => rt = EmptyRuntime /\ ~dir.compose.present
    /\ m = "extract_only" => rt = EmptyRuntime /\ ~dir.compose.present
    /\ dir.compose.present => a.root = TreeOne

EmptyDir == [files |-> {}, additional_path |-> {}, compose |-> NoCompose]

RestoreIdle ==
    /\ rpc = "idle"
    /\ run = 1
    /\ extracted = NothingExtracted
    /\ tmpdirs = {}
    /\ target = EmptyRuntime
    /\ restored_images = <<>>
    /\ restored_networks = <<>>
    /\ restored_volumes = <<>>
    /\ restored_containers = <<>>
    /\ temp_volumes_data = NoVolumeData
    /\ cmds = <<>>
    /\ before = EmptyRuntime
    /\ path = "none"

RestoreStart ==
    /\ rpc = "start"
    /\ mode \in {"restore", "extract_only"}
    /\ run = 1
    /\ extracted = NothingExtracted
    /\ tmpdirs = {}
    /\ cwd \in TargetDirs
    /\ target \in TargetRuntimes
    /\ restored_images = <<>>
    /\ restored_networks = <<>>
    /\ restored_volumes = <<>>
    /\ restored_containers = <<>>
    /\ temp_volumes_data = NoVolumeData
    /\ cmds = <<>>
    /\ before = target
    /\ path = "none"

-----------------------------------------------------------------------------
(* Specifications                                                          *)

InitBackup ==
    /\ InventoryIdle
    /\ supplied = NothingSupplied
    /\ TransferIdle
    /\ BackupStart
    /\ archive = UnreadableArchive
    /\ RestoreIdle
    /\ mode = "restore"
    /\ cwd = EmptyDir
NextBackup == BackupNext
SpecBackup == InitBackup /\ [][NextBackup]_vars

\* backup_docker_data runs to its end: it is one sequential function, so a
\* step that can be taken is taken.
SpecBackupLive == InitBackup /\ [][NextBackup]_vars /\ WF_vars(NextBackup)

\* main in backup mode up to the finished backup directory.
InitInventory ==
    /\ InventoryStart
    /\ supplied = NothingSupplied
    /\ TransferIdle
    /\ archive = UnreadableArchive
    /\ RestoreIdle
    /\ mode = "restore"
    /\ cwd = EmptyDir
NextInventory == MainParseCompose \/ BackupAllDockerData \/ BackupNext
SpecInventory == InitInventory /\ [][NextInventory]_vars

InitRestore ==
    /\ InventoryIdle
    /\ supplied = NothingSupplied
    /\ TransferIdle
    /\ BackupIdle
    /\ archive \in RestoreArchives
    /\ RestoreStart
    /\ Scenario(archive, mode, cwd, target)
NextRestore == RestoreNext
SpecRestore == InitRestore /\ [][NextRestore]_vars

\* main in backup mode from line 89 on: the archive is in the working
\* directory; the command line and the file system are inputs.
InitTransfer ==
    /\ InventoryIdle
    /\ BackupIdle
    /\ archive = UnreadableArchive
    /\ RestoreIdle
    /\ mode = "restore"
    /\ cwd = EmptyDir
    /\ supplied = NothingSupplied
    /\ tpc = "decide"
    /\ args \in ArgSets
    /\ destination = <<>>
    /\ prompts = <<>>
    /\ handler = "none"
    /\ fs \in Filesystems
    /\ returned = "none"
    /\ outcome = "none"
NextTransfer == TransferNext
SpecTransfer == InitTransfer /\ [][NextTransfer]_vars

\* The round trip: an inventory whose container web uses the image, the
\* network and the volume it lists is backed up on the source host, packed,
\* and restored on a clean target host.
InitRoundTrip ==
    /\ InventoryIdle
    /\ supplied = NothingSupplied
    /\ TransferIdle
    /\ BackupStart
    /\ images = <<Descriptor("web").Image>>
    /\ containers = <<"web">>
    /\ networks = <<"appnet">>
    /\ archive = UnreadableArchive
    /\ RestoreIdle
    /\ mode \in {"restore", "extract_only"}
    /\ cwd \in TargetDirs
NextRoundTrip == BackupNext \/ CreateArchives \/ MainCreateArchives \/ RestoreNext
SpecRoundTrip == InitRoundTrip /\ [][NextRoundTrip]_vars

-----------------------------------------------------------------------------
(* Properties of backup_docker_data (SpecBackup)                           *)

BackupRunning == bpc \in {"containers", "images", "networks", "volumes", "manifest"}
AfterContainers == bpc \in {"images", "networks", "volumes", "manifest", "done"}

\* C7. Self-contained backup: once backup_docker_data has returned, every
\* image, container, network and volume listed in manifest.json has its
\* artifact in the backup directory: the blob file images/<escaped>.tar, a
\* descriptor in containers.json, networks/<name>.json, volumes/<name>.json.
SelfContainedBackup ==
    bpc = "done" =>
        /\ \A i \in Range(backup_dir.manifest.images) :
              Escape(i) \in DOMAIN backup_dir.images
        /\ \A c \in Range(backup_dir.manifest.containers) :
              \E d \in Range(backup_dir.containers_json) : d.Name = c
        /\ \A n \in Range(backup_dir.manifest.networks) : n \in backup_dir.networks
        /\ \A v \in backup_dir.manifest.volumes : v \in backup_dir.volumes_meta

\* C8. Dropped-container tolerance: a container whose inspection gave no
\* configuration is left out of `containers` from the end of the first loop
\* on and out of the manifest's container list, the run goes on to the end
\* and writes the manifest, and every volume mounted by a container whose
\* configuration was read is in the set of volumes to capture and in the
\* manifest's volume list, whatever happened to the other containers.
DroppedContainerTolerance ==
    /\ BackupRunning => ENABLED BackupNext
    /\ AfterContainers =>
          /\ \A c \in dropped.containers : c \notin Range(containers)
          /\ \A d \in Range(containers_json) : d.Mounts \subseteq volumes_to_backup
    /\ bpc = "done" =>
          /\ backup_dir.manifest.written
          /\ \A c \in dropped.containers :
                c \notin Range(backup_dir.manifest.containers)
          /\ \A d \in Range(backup_dir.containers_json) :
                d.Mounts \subseteq backup_dir.manifest.volumes

\* A backup that dropped one container and kept another, with its volumes
DroppedContainerWitness ==
    /\ bpc = "done"
    /\ dropped.containers # {}
    /\ backup_dir.manifest.containers # <<>>
    /\ backup_dir.manifest.volumes # {}

\* C9. Image export failure: an image reference whose `docker save` failed
\* is absent from the image list of manifest.json.
FailedExportAbsentFromManifest ==
    bpc = "done" =>
        \A i \in dropped.images : i \notin Range(backup_dir.manifest.images)
-----------------------------------------------------------------------------
(* Properties of the restore (SpecRestore)                                 *)

\* Positions of the commands `op` issued for `name` by the current call
Issued(op, name) == {i \in DOMAIN cmds : cmds[i].op = op /\ cmds[i].name = name}

CreateOps == {"network create", "volume create", "run"}

\* Names of the descriptors restore_containers does not drop
ValidContainers(root) ==
    {d.Name : d \in {x \in Range(root.containers_json) : x.Name # "" /\ x.Image # <<>>}}

\* Resource names of a runtime, per kind
Resources(rt) ==
    [networks |-> rt.networks, volumes |-> DOMAIN rt.volumes,
     containers |-> DOMAIN rt.containers]

\* The resources of the backup that restore_containers does not drop all
\* exist on the target when the call starts
AllPresentBefore ==
    /\ extracted.root.networks \subseteq Resources(before).networks
    /\ extracted.root.volumes_meta \subseteq Resources(before).volumes
    /\ ValidContainers(extracted.root) \subseteq Resources(before).containers

\* C2. Idempotence: in the second of two calls with the same archive on the
\* same target, when the first call left every resource of the backup on
\* the target and every existence check of the second call answers, the
\* second call issues no create command for a network, a volume or a
\* container, lists every network, volume and container of the backup as
\* handled, and leaves the set of runtime resources as it found it.
SecondRunIdempotent ==
    (/\ mode = "restore" /\ run = 2 /\ rpc = "done"
     /\ AllPresentBefore
     /\ \A i \in DOMAIN cmds : cmds[i].result # "absent") =>
        /\ \A i \in DOMAIN cmds : cmds[i].op \notin CreateOps
        /\ extracted.root.networks \subseteq Range(restored_networks)
        /\ extracted.root.volumes_meta \subseteq Range(restored_volumes)
        /\ ValidContainers(extracted.root) \subseteq Range(restored_containers)
        /\ Resources(target) = Resources(before)

\* C3. Conflict handling: when the existence check of restore_networks,
\* restore_volumes or restore_containers finds the name on the target, the
\* call issues no create command for that name and the name is in the
\* list the function returns.
ConflictHandling ==
    \A i \in DOMAIN cmds :
        cmds[i].result = "found" =>
            /\ cmds[i].op = "network ls" =>
                  /\ Issued("network create", cmds[i].name) = {}
                  /\ cmds[i].name \in Range(restored_networks)
            /\ cmds[i].op = "volume ls" =>
                  /\ Issued("volume create", cmds[i].name) = {}
                  /\ cmds[i].name \in Range(restored_volumes)
            /\ cmds[i].op = "ps" =>
                  /\ Issued("run", cmds[i].name) = {}
                  /\ cmds[i].name \in Range(restored_containers)

\* A first call on a target that already holds the network, the volume and
\* the container of the backup
ConflictWitness ==
    /\ rpc = "done" /\ run = 1
    /\ \E i \in DOMAIN cmds : cmds[i].op = "network ls" /\ cmds[i].result = "found"
    /\ \E i \in DOMAIN cmds : cmds[i].op = "volume ls" /\ cmds[i].result = "found"
    /\ \E i \in DOMAIN cmds : cmds[i].op = "ps" /\ cmds[i].result = "found"

\* C4. Fallback correctness: when docker compose up failed, the call ends
\* having handled every network, volume and container of the backup
\* exactly once (one existence check each) in the direct restoration.
FallbackAccountsForAll ==
    (rpc = "done" /\ path = "fallback") =>
        /\ \A n \in extracted.root.networks : Cardinality(Issued("network ls", n)) = 1
        /\ \A v \in extracted.root.volumes_meta : Cardinality(Issued("volume ls", v)) = 1
        /\ \A c \in ValidContainers(extracted.root) : Cardinality(Issued("ps", c)) = 1

\* C5. Guaranteed cleanup: when restore_docker_backup has ended, by return
\* or by exception, no extraction directory made by extract_backup exists.
ExtractionDirRemoved ==
    (mode = "restore" /\ rpc \in {"done", "raised"}) =>
        \A d \in tmpdirs : d[1] # "docker_restore_"

\* C6. Fatal error handling: when the archive is not a readable tar file the
\* restore ends by exception having issued no runtime command, changed
\* nothing on the target and left no temporary directory behind.
FatalAbortReleasesAll ==
    (rpc = "raised" /\ ~archive.readable) =>
        /\ cmds = <<>>
        /\ target = before
        /\ tmpdirs = {}

\* The outer archive holds one current_dir_* and one docker_src_base_dir_*
\* or additional_path_* inner archive.
RoleArchives(a) ==
    /\ a.readable
    /\ Cardinality({i \in DOMAIN a.members : a.members[i].prefix = "current_dir_"
                                              /\ a.members[i].istar}) = 1
    /\ Cardinality({i \in DOMAIN a.members :
                      /\ a.members[i].prefix \in {"docker_src_base_dir_", "additional_path_"}
                      /\ a.members[i].istar}) = 1

\* C10. Auxiliary routing: after the restore of such an archive the
\* application files are in the working / target directory, the extra-path
\* files are in the dedicated subdirectory, and neither set is in the
\* other's place.
AuxiliaryRouting ==
    (rpc = "done" /\ RoleArchives(archive)) =>
        /\ "app" \in cwd.files
        /\ "extra" \in cwd.additional_path
        /\ "extra" \notin cwd.files
        /\ "app" \notin cwd.additional_path

\* C17. Manifest file frame: when restore_docker_backup has returned, the
\* declarative manifest file on disk has not been rewritten and none of its
\* networks has been marked external.
ManifestFileFrame ==
    (mode = "restore" /\ rpc = "done") =>
        /\ ~cwd.compose.dumped
        /\ \A n \in DOMAIN cwd.compose.networks : cwd.compose.networks[n] # "external"

\* C18. Restoration report: when the direct restoration has ended, every
\* network, volume and container it attempted (checked for existence) has
\* an entry in the list the restore function returned.
RestorationReport ==
    (rpc = "done" /\ path \in {"imperative", "fallback"}) =>
        \A i \in DOMAIN cmds :
            /\ cmds[i].op = "network ls" => cmds[i].name \in Range(restored_networks)
            /\ cmds[i].op = "volume ls" => cmds[i].name \in Range(restored_volumes)
            /\ cmds[i].op = "ps" => cmds[i].name \in Range(restored_containers)

\* C19. Image load accounting: the list restore_images returned has one
\* entry for every docker load command of the call that succeeded.
ImageLoadAccounting ==
    mode = "restore" =>
        Len(restored_images) =
            Cardinality({i \in DOMAIN cmds : cmds[i].op = "load" /\ cmds[i].result = "ok"})

\* Files of the inner archives of the outer archive
PackedFiles == UNION {archive.members[i].payload.files : i \in DOMAIN archive.members}

\* C20. Extract-only mode: a run with --extract-only issues no runtime
\* command, leaves the runtime of the host as it was, reports nothing
\* restored, and writes to the target directory only files of the inner
\* archives.
ExtractOnlyNoRuntime ==
    mode = "extract_only" =>
        /\ cmds = <<>>
        /\ target = before
        /\ restored_images = <<>> /\ restored_networks = <<>>
        /\ restored_volumes = <<>> /\ restored_containers = <<>>
        /\ cwd.files \cup cwd.additional_path \subseteq PackedFiles
        /\ cwd.compose.present =>
              \E i \in DOMAIN archive.members : archive.members[i].payload.compose = cwd.compose

\* An extract-only run over an archive that holds image blobs and inner
\* archives has ended with files written
ExtractOnlyWitness ==
    /\ mode = "extract_only" /\ rpc = "done"
    /\ cwd.files # {}

-----------------------------------------------------------------------------
(* Properties of the round trip (SpecRoundTrip)                            *)

\* Every command of the backup succeeded
BackupComplete ==
    /\ dropped = [containers |-> {}, images |-> {}, networks |-> {}, volumes |-> {}]
    /\ \A v \in DOMAIN backup_dir.volumes_data :
          backup_dir.volumes_data[v] = SourceData(v)

\* C1. Round trip: after backup_docker_data, create_archives and
\* restore_docker_backup on a clean target, every image, network, volume
\* and container of the inventory exists on the target by name and every
\* volume holds the captured content.
RoundTripRestoresInventory ==
    (bpc = "archived" /\ mode = "restore" /\ rpc = "done" /\ BackupComplete) =>
        /\ Range(images) \subseteq target.images
        /\ Range(networks) \subseteq target.networks
        /\ Range(containers) \subseteq DOMAIN target.containers
        /\ \A v \in volumes_to_backup :
              /\ v \in DOMAIN target.volumes
              /\ target.volumes[v] = SourceData(v)
\* The inner archives of the outer archive whose name starts with one of ps
Inner(ps) == {i \in DOMAIN archive.members : archive.members[i].prefix \in ps}

\* C11. Naming compatibility: after create_archives and a restore of what
\* it wrote, every inner archive was recognised by the restore side: the
\* backup directory is what restore_docker_backup reads its resources from
\* (extract-only: its files are written to the target directory), the
\* application files are in the working directory, and the extract-only
\* loop has written the additional files.
PackagedNamesRecognised ==
    (bpc = "archived" /\ rpc = "done") =>
        \A i \in DOMAIN archive.members :
            LET m == archive.members[i] IN
            /\ m.prefix = "docker_backup_" =>
                  IF mode = "restore" THEN extracted.root = m.payload.tree
                  ELSE m.payload.files \subseteq cwd.files
            /\ m.prefix = "current_dir_" => m.payload.files \subseteq cwd.files
            /\ m.prefix = "additional_files_" =>
                  (mode = "extract_only" => m.payload.files \subseteq cwd.files)

\* C12. Packager contents: when the packaging step has ended, the outer
\* archive exists and holds exactly one backup-directory archive, one
\* application archive iff an application directory was supplied, one
\* additional-files archive iff additional files were supplied, one
\* extra-path archive iff an extra path was supplied, and one listing file.
PackagerContents ==
    bpc \in {"archived", "raised"} =>
        /\ archive.readable
        /\ Cardinality(Inner({"docker_backup_"})) = 1
        /\ Cardinality(Inner({"current_dir_"})) = IF supplied.app.files # {} THEN 1 ELSE 0
        /\ Cardinality(Inner({"additional_files_"})) = IF supplied.additional THEN 1 ELSE 0
        /\ Cardinality(Inner({"docker_src_base_dir_", "additional_path_"}))
              = IF supplied.extra THEN 1 ELSE 0
        /\ Cardinality(Inner({"README"})) = 1
        /\ Len(archive.members) =
              Cardinality(Inner({"docker_backup_", "current_dir_", "additional_files_",
                                 "docker_src_base_dir_", "additional_path_", "README"}))
-----------------------------------------------------------------------------
(* Properties of the transfer (SpecTransfer)                               *)

\* The destination grammar: ftp://..., user@host:path (a non-empty user, a
\* non-empty host, no slash before the colon), anything else a local path.
IsFtp(d) == StartsWithSeq(d, FtpScheme)
IsScp(d) ==
    /\ ~IsFtp(d)
    /\ \E i, j \in DOMAIN d :
          /\ 1 < i /\ i + 1 < j
          /\ d[i] = "@" /\ d[j] = ":"
          /\ \A k \in 1..(j - 1) : d[k] # "/"
IsLocal(d) == ~IsFtp(d) /\ ~IsScp(d)

\* C13. Destination-grammar parsing: once transfer_files has been called,
\* the branch it took is the FTP handler for an ftp:// destination, secure
\* copy for user@host:path, and local copy for a local path.
DestinationRouting ==
    handler # "none" =>
        /\ IsFtp(destination) => handler = "ftp"
        /\ IsScp(destination) => handler = "scp"
        /\ IsLocal(destination) => handler = "local"

NoPromptWhenForbidden ==
    args.no_prompt => prompts = <<>>

\* C16. Transport failure: transfer_files returns True or False, the
\* archive file keeps its content, and a run whose transfer returned False
\* ends as failed.
TransportFailureSurfaced ==
    /\ tpc \in {"finish", "done"} /\ handler # "none" => returned \in {"True", "False"}
    /\ tpc # "idle" =>
          ArchivePath \in DOMAIN fs.files /\ fs.files[ArchivePath] = ArchiveContent
    /\ tpc = "done" /\ returned = "False" => outcome = "failed"

-----------------------------------------------------------------------------
(* Properties of the inventory construction (SpecInventory)                *)

\* A compose file that cannot be read or parsed, or one whose walk fails:
\* a service without configuration, a volume entry that is not iterable,
\* a networks key without a value.
Malformed(doc) ==
    \/ ~doc.readable
    \/ doc.yaml # "mapping"
    \/ /\ doc.has_services
       /\ \E i \in DOMAIN doc.services :
            \/ doc.services[i].null
            \/ \E j \in DOMAIN doc.services[i].volumes :
                 doc.services[i].volumes[j].kind = "number"
    \/ doc.has_networks /\ doc.networks_null

\* C22. Malformed manifest: when the compose file cannot be read or parsed,
\* or any step of walking it fails, the inventory main receives from
\* parse_compose_file has four empty lists.
MalformedManifestEmptyInventory ==
    bpc = "containers" /\ source.kind = "compose" /\ Malformed(source) =>
        /\ images = <<>>
        /\ containers = <<>>
        /\ networks = <<>>
        /\ additional_files = <<>>

\* The walk failed after it had filled some of the lists.
MalformedManifestWitness ==
    /\ bpc = "containers" /\ source.kind = "compose" /\ Malformed(source)
    /\ WalkCompose(source).images # <<>>
    /\ WalkCompose(source).additional_files # <<>>
    /\ images = <<>>

\* C24. Default networks: a finished backup holds no configuration file of
\* bridge, host or none and its manifest lists none of them, whichever way
\* the inventory was built.
DefaultNetworksNotCaptured ==
    bpc = "done" =>
        /\ backup_dir.networks \cap DefaultNetworks = {}
        /\ Range(backup_dir.manifest.networks) \cap DefaultNetworks = {}

\* C29. Live inventory deduplication: the lists backup_all_docker_data hands
\* to backup_docker_data hold each image, container and network once.
LiveInventoryDeduplicated ==
    bpc = "containers" /\ source.kind = "live" =>
        NoDup(images) /\ NoDup(containers) /\ NoDup(networks)

-----------------------------------------------------------------------------
(* Properties of main's restore mode, continued (SpecRestore)              *)

RunEnded == rpc \in {"done", "raised"}
\* Some command of the call failed: a resource was skipped or is missing.
Warned == \E i \in DOMAIN cmds : cmds[i].result = "fail"

InvalidDescriptorsDropped ==
    rpc \in {"report", "done"} /\ path \in {"imperative", "fallback"} =>
        /\ \A i \in DOMAIN extracted.root.containers_json :
             LET d == extracted.root.containers_json[i] IN
             d.Name = "" \/ d.Image = <<>> =>
                 /\ Issued("ps", d.Name) = {}
                 /\ Issued("run", d.Name) = {}
                 /\ d.Name \notin Range(restored_containers)
        /\ \A c \in ValidContainers(extracted.root) : Issued("ps", c) # {}

\* The container after the two dropped descriptors was created.
InvalidDescriptorsWitness ==
    /\ rpc = "done" /\ path = "imperative"
    /\ extracted.root = TreeOdd
    /\ Issued("run", "web") # {}
    /\ restored_containers = <<"web">>

\* Containers the current call created with `docker run`
CreatedContainers ==
    {c \in ValidContainers(extracted.root) :
        \E i \in Issued("run", c) : cmds[i].result = "ok"}

\* The volume mounts restore_containers gives the descriptor named c when
\* it is handed the volumes of the backup that exist on the target
ImperativeMounts(c) ==
    UNION {d.HostMounts \cap extracted.root.volumes_meta \cap DOMAIN target.volumes :
             d \in {x \in Range(extracted.root.containers_json) : x.Name = c}}

\* C25. Fallback equivalence: after a failed docker compose up the call
\* checks (and recreates) every volume of the backup as the branch without
\* a compose file does, and a container it creates has the mounts that
\* branch gives it.
FallbackEquivalence ==
    rpc \in {"report", "done"} /\ path = "fallback" =>
        /\ \A v \in extracted.root.volumes_meta : Issued("volume ls", v) # {}
        /\ \A c \in CreatedContainers : target.containers[c].volumes = ImperativeMounts(c)

\* Positions of the commands of the current call whose operation is in ops
Positions(ops) == {i \in DOMAIN cmds : cmds[i].op \in ops}
Precede(first, then) ==
    \A i \in Positions(first), j \in Positions(then) : i < j
AllOps == {cmds[i].op : i \in DOMAIN cmds}

\* C26. Restore phase order: a restore_docker_backup call issues commands
\* only once the archive is extracted, every image load comes before every
\* other command and before the branch is chosen, and without a compose
\* file every network and volume command comes before the first container
\* command.
RestorePhaseOrder ==
    mode = "restore" =>
        /\ rpc \in {"idle", "start"} => cmds = <<>>
        /\ cmds # <<>> => <<"docker_restore_", run>> \in tmpdirs
        /\ Precede({"load"}, AllOps \ {"load"})
        /\ rpc \in {"start", "appfiles", "images"} => path = "none" /\ cmds = <<>>
        /\ path = "imperative" =>
              Precede({"network ls", "network create", "volume ls", "volume create",
                       "volume copy"},
                      {"ps", "run"})

\* A restore without a compose file that loaded an image, created a
\* network and a volume and then the container.
RestorePhaseOrderWitness ==
    /\ rpc = "done" /\ path = "imperative"
    /\ Positions({"load"}) # {}
    /\ Positions({"network create"}) # {}
    /\ Positions({"volume create"}) # {}
    /\ Positions({"run"}) # {}

\* C27. Declarative pre-check: when docker compose up is about to run, every
\* network of docker-compose.yml that the pre-check found on the target is
\* marked external in the file.
PreCheckMarksExisting ==
    rpc = "compose_up" =>
        \A n \in DOMAIN cwd.compose.networks :
            (\E i \in Issued("precheck network ls", n) : cmds[i].result = "found") =>
                cwd.compose.networks[n] = "external"

-----------------------------------------------------------------------------
(* Properties of backup_docker_data, continued (SpecBackup)                *)

\* The volumes named by the mount lists of the inspected containers
GatheredMounts == UNION {containers_json[i].Mounts : i \in DOMAIN containers_json}

\* No volume is captured before containers.json is written with every
\* container's mount list, and only volumes of those lists are captured.
VolumesAfterMountLists ==
    "volumes" \in backup_dir.dirs =>
        /\ backup_dir.has_containers_json
        /\ backup_dir.containers_json = containers_json
        /\ volumes_to_backup = GatheredMounts
        /\ backup_dir.volumes_meta \subseteq GatheredMounts

\* C28, as stated. Backup phase order images, containers, networks,
\* volumes: the containers are not handled before the images, the networks
\* not before the containers, the volumes not before the networks.
BackupPhaseOrderStated ==
    /\ backup_dir.has_containers_json => "images" \in backup_dir.dirs
    /\ "networks" \in backup_dir.dirs => backup_dir.has_containers_json
    /\ "volumes" \in backup_dir.dirs => "networks" \in backup_dir.dirs
    /\ VolumesAfterMountLists

\* C28, amended. Backup phase order containers, images, networks, volumes,
\* manifest: each kind is handled only when the one before it is, and no
\* volume is captured before every container's mount list is gathered.
BackupPhaseOrder ==
    /\ "images" \in backup_dir.dirs => backup_dir.has_containers_json
    /\ "networks" \in backup_dir.dirs => "images" \in backup_dir.dirs
    /\ "volumes" \in backup_dir.dirs => "networks" \in backup_dir.dirs
    /\ backup_dir.manifest.written => "volumes" \in backup_dir.dirs
    /\ VolumesAfterMountLists

\* A finished backup with a resource of every kind
BackupPhaseOrderWitness ==
    /\ bpc = "done"
    /\ DOMAIN backup_dir.images # {}
    /\ backup_dir.containers_json # <<>>
    /\ backup_dir.networks # {}
    /\ backup_dir.volumes_meta # {}

\* C30. Container invocation dependencies: a container created by
\* restore_containers mounts only volumes of the list it was handed and is
\* attached only to networks of the list it was handed, all of which exist
\* on the target, and every environment entry it was given contains '='.
InvocationDependencies ==
    rpc \in {"report", "done"} /\ path \in {"imperative", "fallback"} =>
        \A c \in CreatedContainers :
            /\ target.containers[c].volumes
                  \subseteq Range(VolumesArgument(path, restored_volumes))
            /\ target.containers[c].volumes \subseteq DOMAIN target.volumes
            /\ target.containers[c].networks \subseteq Range(restored_networks)
            /\ target.containers[c].networks \subseteq target.networks
            /\ \A e \in target.containers[c].env : "=" \in Range(e)

\* web created with its volume, its network and the one well-formed entry
\* of its environment
InvocationDependenciesWitness ==
    /\ rpc = "done" /\ path = "imperative"
    /\ "web" \in CreatedContainers
    /\ target.containers["web"].volumes = {"dbdata"}
    /\ target.containers["web"].networks = {"appnet"}
    /\ target.containers["web"].env = { <<"A", "=", "1">> }

-----------------------------------------------------------------------------
(* Properties of backup_docker_data: completion (SpecBackupLive)           *)

\* Every resource of the inventory and every volume found was attempted:
\* it is in the backup directory or among the resources whose command failed.
AllAttempted ==
    /\ \A i \in DOMAIN images :
          images[i] \in dropped.images \/ Escape(images[i]) \in DOMAIN backup_dir.images
    /\ Range(containers) = {containers_json[i].Name : i \in DOMAIN containers_json}
    /\ \A n \in Range(networks) : n \in dropped.networks \/ n \in backup_dir.networks
    /\ \A v \in volumes_to_backup : v \in dropped.volumes \/ v \in backup_dir.volumes_meta
    /\ {"images", "networks", "volumes"} \subseteq backup_dir.dirs

\* C31. Backup completion: whatever per-resource commands fail,
\* backup_docker_data ends by returning the backup directory, with
\* manifest.json written and every resource attempted.
BackupCompletion ==
    <>(bpc = "done" /\ backup_dir.manifest.written /\ AllAttempted)

\* A finished backup in which a command failed for a resource of each kind
BackupCompletionWitness ==
    /\ bpc = "done" /\ backup_dir.manifest.written
    /\ dropped.containers # {} /\ dropped.images # {}
    /\ dropped.networks # {} /\ dropped.volumes # {}
    /\ \E v \in backup_dir.volumes_meta : backup_dir.volumes_data[v] = EmptyData

-----------------------------------------------------------------------------
(* Properties of backup_docker_data, continued (SpecBackup)                *)

\* C36. Container descriptors match the manifest: in a finished backup
\* containers.json and the manifest's container list have the same length
\* and the descriptor at each position is the one of the container listed
\* at that position.
DescriptorsMatchManifest ==
    bpc = "done" =>
        /\ Len(backup_dir.containers_json) = Len(backup_dir.manifest.containers)
        /\ \A i \in DOMAIN backup_dir.containers_json :
              backup_dir.containers_json[i] = Descriptor(backup_dir.manifest.containers[i])

\* A backup of two containers, the first of which could not be inspected
\* or gave output that is not JSON
DescriptorsMatchWitness ==
    /\ bpc = "done"
    /\ dropped.containers # {}
    /\ Len(backup_dir.manifest.containers) = 1
    /\ backup_dir.containers_json = <<Descriptor(backup_dir.manifest.containers[1])>>

\* C33. Blob file naming is injective: two distinct references of the
\* inventory have distinct blob file names, and once the images are saved
\* the blob of every exported reference holds that image.
BlobNamingInjective ==
    /\ \A i, j \in DOMAIN images :
          images[i] # images[j] => Escape(images[i]) # Escape(images[j])
    /\ "images" \in backup_dir.dirs =>
          \A i \in DOMAIN images :
             images[i] \notin dropped.images =>
                 /\ Escape(images[i]) \in DOMAIN backup_dir.images
                 /\ backup_dir.images[Escape(images[i])] = images[i]

-----------------------------------------------------------------------------
(* Properties of restore_docker_backup, continued (SpecRestore)            *)

\* C34. Temporary volume copy: when restore_docker_backup has returned, the
\* copy of volumes/ it made before docker compose up is gone, whether the
\* invocation succeeded or the call fell back to the direct restoration.
TempVolumeCopyRemoved ==
    rpc = "done" /\ path \in {"declarative", "fallback"} =>
        <<"volume_data", run>> \notin tmpdirs

\* Commands of the current call that copy captured data into the volume v
DataCopies(v) == Issued("volume copy", v) \cup Issued("volume replay", v)

\* C35. Pre-existing volume data: a volume that existed on the target when
\* the call began is not the destination of a data copy and holds the data
\* it held.
PreExistingVolumesUntouched ==
    mode = "restore" =>
        \A v \in DOMAIN before.volumes :
            /\ DataCopies(v) = {}
            /\ v \in DOMAIN target.volumes /\ target.volumes[v] = before.volumes[v]

\* Names for which the create command op of the current call failed
FailedCreates(op) ==
    {cmds[i].name : i \in {j \in DOMAIN cmds : cmds[j].op = op /\ cmds[j].result = "fail"}}

\* C37. Reported resources exist: on the direct restoration, every name in
\* the lists returned by restore_networks, restore_volumes and
\* restore_containers is a resource of the target, and a name whose create
\* command failed and that the target did not hold before is in no list.
ReportedResourcesExist ==
    path \in {"imperative", "fallback"} =>
        /\ Range(restored_networks) \subseteq target.networks
        /\ Range(restored_volumes) \subseteq DOMAIN target.volumes
        /\ Range(restored_containers) \subseteq DOMAIN target.containers
        /\ (FailedCreates("network create") \ before.networks)
              \cap Range(restored_networks) = {}
        /\ (FailedCreates("volume create") \ DOMAIN before.volumes)
              \cap Range(restored_volumes) = {}
        /\ (FailedCreates("run") \ DOMAIN before.containers)
              \cap Range(restored_containers) = {}

\* A call that created the network and the container while the creation of
\* the volume failed
ReportedResourcesWitness ==
    /\ rpc = "done" /\ path = "imperative"
    /\ restored_networks = <<"appnet">>
    /\ restored_containers = <<"web">>
    /\ "dbdata" \in FailedCreates("volume create")
    /\ "dbdata" \notin DOMAIN before.volumes
    /\ restored_volumes = <<>>

\* Every captured resource of the four kinds was attempted exactly once by
\* the current call: one load per blob, one existence check per network,
\* volume and valid descriptor.
AttemptedOnce ==
    /\ \A b \in DOMAIN extracted.root.images : Cardinality(Issued("load", b)) = 1
    /\ \A n \in extracted.root.networks : Cardinality(Issued("network ls", n)) = 1
    /\ \A v \in extracted.root.volumes_meta : Cardinality(Issued("volume ls", v)) = 1
    /\ \A c \in ValidContainers(extracted.root) : Cardinality(Issued("ps", c)) = 1

\* C32. Restore attempt independence: whatever commands failed, a direct
\* restoration (without a compose file, or after docker compose up failed)
\* ends having attempted every captured image, network, volume and
\* container exactly once, and a failed command never ends the call.
AttemptIndependence ==
    /\ rpc = "raised" => cmds = <<>>
    /\ rpc = "done" /\ path \in {"imperative", "fallback"} => AttemptedOnce
====
